---- MODULE Spec2Model ----
(***************************************************************************)
(* The destination path field (text input + suggestion dropdown) of the    *)
(* Aria2Downloader, hf_hub_downloader and PathUploader node widgets.       *)
(* Strings are sequences of one-character strings.  One step of the model  *)
(* is one run of a handler between two awaits: browsers run each handler   *)
(* and each promise continuation to completion on the single UI thread.    *)
(***************************************************************************)
EXTENDS Integers, Sequences, FiniteSets, TLC

\* ------------------------------------------------------------------ bounds
\* Most list-children requests awaiting their response at once.
MaxInflight == 1
\* The same, in the specification of overlapping lookups (SpecRace).
MaxRace == 2
\* Most root queries of focus handlers awaiting their response at once.
MaxRootQ == 1
\* Most folders a list-children response names.
MaxFolders == 2
\* Longest path under which the listing service still reports folders.
MaxPathLen == 4
\* Most invocations of a node's removal handler.
MaxRemovals == 2
\* Longest text an edit leaves in the input, in the specification of the
\* input listener (SpecNormalize).
MaxTextLen == 4
\* Most start requests a downloader widget sends.
MaxDownloads == 2
\* Most stop requests awaiting their response at once.
MaxStops == 1
\* Most upload requests a PathUploader widget sends.
MaxUploads == 2
\* Most requests of one kind the list downloader has in flight at once.
MaxListReq == 1
\* Most items of a list file.
MaxItems == 2

\* ------------------------------------------------------------ environment
Kinds == {"aria2", "hf_hub", "uploader"}
\* The texts an input event may leave in the field: empty, a plain name,
\* one with a backslash next to a slash, and a blank one.
Texts == {<<>>, <<"a">>, <<"\\", "/">>, <<" ">>}
\* The folders of a directory in the order the service lists them; a
\* response names the first k of them, k <= MaxFolders.
Listing == <<<<"c">>, <<"b">>, <<"d">>>>
FolderLists == {SubSeq(Listing, 1, k) : k \in 0..MaxFolders}
\* Roots the listing service reports: a POSIX path and a Windows UNC path.
ServerRoots == {<<"/", "a">>, <<"\\", "\\", "a">>}
\* Persisted dest_dir values a node is created with.
PersistedDirs == {<<>>, <<"/", "a">>}
NoTimer == 0
\* The characters of an edited text: a backslash, a slash, an ordinary one.
Alphabet == {"\\", "/", "a"}
AllTexts == UNION {[1..n -> Alphabet] : n \in 0..MaxTextLen}

VARIABLES kind, value, dest_dir, focused, items, rows, active, display,
          debounceTimer, timers, inflight, rootq, legacyTimer,
          listeners, dropdownParent, removals, threw,
          caret, userIdle,
          gid, downloadDisabled, stopDisabled, startq, statusq, stopq,
          pollTimer, pollTimers, started, statusText,
          selectedFile, xhr, uploading, uploadStatus, uploadsSent,
          pathInput, searchInput, categoryFilter, options, selCategory,
          listItems, lastRendered, disabled, readq, refreshq, pullq,
          downloadq, batch, msg,
          dismissed, window, lastOp

\* What the removal handler works on.
teardown == <<listeners, dropdownParent, removals, threw>>

\* The download controls of Aria2Downloader and hf_hub_downloader.
download == <<gid, downloadDisabled, stopDisabled, startq, statusq, stopq,
              pollTimer, pollTimers, started, statusText>>

\* The upload controls of PathUploader.
upload == <<selectedFile, xhr, uploading, uploadStatus, uploadsSent>>

\* The controls that neither the path field nor the download buttons touch.
\* The state of hf_list_downloader.
hflist == <<pathInput, searchInput, categoryFilter, options, selCategory,
            listItems, lastRendered, disabled, readq, refreshq, pullq,
            downloadq, batch, msg>>

widgets == <<upload, hflist>>

vars == <<kind, value, dest_dir, focused, items, rows, active, display,
          debounceTimer, timers, inflight, rootq, legacyTimer,
          listeners, dropdownParent, removals, threw,
          caret, userIdle,
          gid, downloadDisabled, stopDisabled, startq, statusq, stopq,
          pollTimer, pollTimers, started, statusText,
          selectedFile, xhr, uploading, uploadStatus, uploadsSent,
          pathInput, searchInput, categoryFilter, options, selCategory,
          listItems, lastRendered, disabled, readq, refreshq, pullq,
          downloadq, batch, msg,
          dismissed, window, lastOp>>

\* ------------------------------------------------------- string functions
\* s.replace(/\\/g, "/")
ReplaceBackslash(s) == [i \in 1..Len(s) |-> IF s[i] = "\\" THEN "/" ELSE s[i]]

\* Mutant of CollapseSlashes: only the first doubled slash loses a slash.
CollapseSlashes_once(s) ==
    IF \E i \in 1..(Len(s) - 1) : s[i] = "/" /\ s[i + 1] = "/"
    THEN LET i == CHOOSE j \in 1..(Len(s) - 1) :
                      /\ s[j] = "/" /\ s[j + 1] = "/"
                      /\ \A h \in 1..(j - 1) : ~(s[h] = "/" /\ s[h + 1] = "/")
         IN  SubSeq(s, 1, i) \o SubSeq(s, i + 2, Len(s))
    ELSE s

\* s.replace(/\/{2,}/g, "/")
RECURSIVE CollapseSlashes(_)
CollapseSlashes(s) ==
    IF Len(s) <= 1 THEN s
    ELSE LET r == CollapseSlashes(SubSeq(s, 1, Len(s) - 1))
         IN  IF s[Len(s)] = "/" /\ s[Len(s) - 1] = "/" THEN r
             ELSE Append(r, s[Len(s)])

\* The inline normalization of Aria2Downloader and hf_hub_downloader.
InlineNormalize(s) == CollapseSlashes(ReplaceBackslash(s))

\* PathUploader: const normalizePath = (p) => (p || "").replace(/\\/g, "/")
normalizePath(p) == ReplaceBackslash(p)

\* PathUploader: joinPath(base, seg)
joinPath(base, seg) ==
    LET b == normalizePath(base)
        g == normalizePath(seg)
    IN  IF b = <<>> THEN g
        ELSE IF g = <<>> THEN b
        ELSE IF b[Len(b)] = "/" THEN b \o g
        ELSE b \o <<"/">> \o g

\* Mutant of Trim: nothing is trimmed.
Trim_none(s) == s

\* String.prototype.trim over the model's alphabet
RECURSIVE TrimLeft(_)
TrimLeft(s) == IF s # <<>> /\ s[1] = " " THEN TrimLeft(Tail(s)) ELSE s
RECURSIVE TrimRight(_)
TrimRight(s) ==
    IF s # <<>> /\ s[Len(s)] = " " THEN TrimRight(SubSeq(s, 1, Len(s) - 1)) ELSE s
Trim(s) == TrimRight(TrimLeft(s))

\* The normalization a field applies to typed text and to a chosen path.
Normalize(k, s) == IF k = "uploader" THEN normalizePath(s) ELSE InlineNormalize(s)

\* ----------------------------------------------------------------- timers
\* clearTimeout(h): removing a handle that is not armed changes nothing.
ClearTimeout(ts, h) == ts \ {h}

\* setTimeout returns a handle that no armed timer has (handles are opaque:
\* the least free positive number stands for "a new one").
FreshTimer(ts) ==
    CHOOSE i \in 1..(Cardinality(ts) + 1) :
        /\ i \notin ts
        /\ \A j \in 1..(i - 1) : j \in ts

\* Mutant of scheduleFetch: arms the new timer without clearing the old one.
scheduleFetch_noClear(ts, h) ==
    [timers |-> ts \cup {FreshTimer(ts)}, debounceTimer |-> FreshTimer(ts)]

\* scheduleFetch: if (debounceTimer) clearTimeout(debounceTimer);
\*                debounceTimer = setTimeout(fetchChildren, delay)
scheduleFetch(ts, h) ==
    LET cleared == IF h # NoTimer THEN ClearTimeout(ts, h) ELSE ts
        t == FreshTimer(cleared)
    IN  [timers |-> cleared \cup {t}, debounceTimer |-> t]

\* The same two statements, inline, after a root was seeded (50 ms delay).
seedFetch(ts, h) ==
    LET cleared == IF h # NoTimer THEN ClearTimeout(ts, h) ELSE ts
        t == FreshTimer(cleared)
    IN  [timers |-> cleared \cup {t}, debounceTimer |-> t]

\* blur / docHandler: if (debounceTimer) { clearTimeout(debounceTimer); debounceTimer = null; }
cancelFetch(ts, h) ==
    [timers |-> IF h # NoTimer THEN ClearTimeout(ts, h) ELSE ts,
     debounceTimer |-> NoTimer]

\* --------------------------------------------------------------- dropdown
\* Mutant of renderDropdown: with no items it hides the dropdown but keeps active.
renderDropdown_keepActive(its, act) ==
    IF its = <<>>
    THEN [items |-> <<>>, rows |-> <<>>, active |-> act, display |-> "none"]
    ELSE [items |-> its, rows |-> its, active |-> act, display |-> "block"]

\* renderDropdown: rebuilds the rows from items; with no items it hides the
\* dropdown and resets active, otherwise it shows it.
renderDropdown(its, act) ==
    IF its = <<>>
    THEN [items |-> <<>>, rows |-> <<>>, active |-> -1, display |-> "none"]
    ELSE [items |-> its, rows |-> its, active |-> act, display |-> "block"]

\* The path a lookup asks for: the trimmed, normalized input text.
LookupPath(k, v) == Normalize(k, Trim(v))

\* The answers of GET /az/listdir?path=val.  A thrown fetch or a body that is
\* not JSON is "throw"; "notok" is a body whose ok is absent or false (or,
\* in Aria2Downloader and hf_hub_downloader, whose folders is not an array).
\* http2xx is Response.ok, which fetchChildren never reads.
ListResponses(val) ==
    {[status |-> "throw", http2xx |-> FALSE, root |-> <<>>, folders |-> <<>>]}
    \cup
    {[status |-> "notok", http2xx |-> h, root |-> <<>>, folders |-> <<>>] : h \in BOOLEAN}
    \cup
    {r \in [status : {"ok"}, http2xx : BOOLEAN, root : {<<>>} \cup ServerRoots,
            folders : FolderLists] :
        \/ r.folders = <<>>
        \/ Len(IF r.root # <<>> THEN r.root ELSE val) + 2 <= MaxPathLen}

\* The answers of GET /az/listdir (no path): the default root.
RootResponses ==
    {[status |-> st, root |-> <<>>] : st \in {"throw", "notok"}}
    \cup [status : {"ok"}, root : {<<>>} \cup ServerRoots]

\* Mutant of MapFolders: the joined path is not normalized.
MapFolders_noNormalize(k, resp, val) ==
    [i \in 1..Len(resp.folders) |->
        [name |-> resp.folders[i],
         path |-> (IF resp.root # <<>> THEN resp.root ELSE val)
                      \o <<"/">> \o resp.folders[i]]]

\* data.folders.map(f => ({name: f.name, path: <base "/" name, normalized>}))
\* with base = data.root || val.
MapFolders(k, resp, val) ==
    LET base == IF resp.root # <<>> THEN resp.root ELSE val
    IN  [i \in 1..Len(resp.folders) |->
            [name |-> resp.folders[i],
             path |-> IF k = "uploader"
                      THEN joinPath(base, resp.folders[i])
                      ELSE InlineNormalize(base \o <<"/">> \o resp.folders[i])]]

\* Mutant of fetchTail: renders without asking whether the input has focus.
fetchTail_noFocusCheck(k, resp, val, foc) ==
    LET its == IF resp.status = "ok" THEN MapFolders(k, resp, val) ELSE <<>>
    IN  renderDropdown(its, IF its # <<>> THEN 0 ELSE -1)

\* fetchChildren after its await: the new items, active, and the dropdown,
\* rendered only when the input is the document's active element.
fetchTail(k, resp, val, foc) ==
    LET its == IF resp.status = "ok" THEN MapFolders(k, resp, val) ELSE <<>>
        act == IF its # <<>> THEN 0 ELSE -1
    IN  IF foc THEN renderDropdown(its, act)
        ELSE [items |-> its, rows |-> <<>>, active |-> act, display |-> "none"]

Tracked == {"create", "Blur", "OutsidePointerDown", "Escape", "Enter", "PointerSelect",
            "StaleListResponse", "ArrowDown", "ArrowUp"}
Op(name, idx) == IF name \in Tracked THEN [op |-> name, i |-> idx]
                 ELSE [op |-> "other", i |-> 0]

\* ------------------------------------------------------------------ state
\* kind           which widget the field belongs to (fixed at creation)
\* value          destInput.value
\* dest_dir       this.properties.dest_dir
\* focused        document.activeElement === destInput
\* items, active  the suggestion list and the highlighted index (0-based, -1 none)
\* rows           the row elements of the shown dropdown, each closing over its
\*                item; <<>> while the dropdown is hidden (the elements of a
\*                hidden dropdown receive no event and are rebuilt by the
\*                next renderDropdown before it is shown again)
\* display        dropdown.style.display
\* debounceTimer  the kept timer handle (NoTimer for null)
\* timers         the handles of the armed fetchChildren timers
\* inflight       list-children requests awaiting their response, in issue order;
\*                key is the arrow key whose PathUploader keydown handler awaits it
\* rootq          root queries awaiting their response: the creation-time one
\*                and those of focus handlers
\* legacyTimer    PathUploader's creation-time timer that dispatches an input event
\* History variables (read by no handler):
\* dismissed      the dismiss statements ran and no user event has started a lookup since
\* window         the latest debounce window: "idle" (none yet, or cancelled),
\*                "one" / "many" (scheduleFetch called once / more than once, timer
\*                pending), "firedOne" / "firedMany" (its timer ran fetchChildren),
\*                "firedAgain" (a second timer of the same window ran it too)
\* lastOp         the handler that ran last, for the handlers in Tracked
\* inflight[n].stale   a request issued later has already been answered
\* The node's registrations outside its own elements:
\* listeners      the listeners registered on document ("pointerdown") and on
\*                window ("scroll", "resize")
\* dropdownParent the parent of the dropdown element: "body", "container"
\*                (PathUploader: inside the widget's container) or "none"
\* removals       how many times the node's onRemoved was invoked
\* threw          an invocation of onRemoved raised an error
\* caret          destInput.selectionStart
\* userIdle       history: the user has stopped acting on the field
\* The download controls (Aria2Downloader, hf_hub_downloader):
\* gid            this.gid (0 for null)
\* downloadDisabled, stopDisabled   the buttons' disabled flags
\* startq         start requests awaiting their response
\* statusq        status requests awaiting their response, each the gid polled
\* stopq          stop requests awaiting their response, each the gid sent
\* pollTimer      this._pollTimer (NoTimer for null)
\* pollTimers     the handles of the armed poll timers
\* started        history: how many start requests the service accepted
\* statusText     statusEl.textContent, by the statement that wrote it
\* The upload controls (PathUploader):
\* selectedFile   this._selectedFile is set
\* xhr            this._xhr (0 for null, else the request it refers to)
\* uploading      the upload requests sent and neither finished nor aborted
\* uploadStatus   this._status, by the statement that wrote it
\* uploadsSent    history: how many upload requests were sent
\* The list downloader (hf_list_downloader):
\* pathInput      pathInput.value
\* searchInput    searchInput.value
\* categoryFilter properties.category_filter
\* options        the option values of selCategory, in order
\* selCategory    selCategory.value (<<>> when no option is selected)
\* listItems      items: each with its fields, whether it has a row (el), the
\*                classes of that row (cls) and its checkbox (checked)
\* lastRendered   lastRendered, as positions in items
\* disabled       the disabled flags of btnDownload, btnRead, btnRefresh
\*                (Fetch) and btnPull (Refresh)
\* readq          the /hf_list/read requests in flight: the path asked for
\*                and the path of the refresh awaiting the read (<<>> if none)
\* refreshq       the /hf_list/refresh requests in flight, by path
\* pullq          the refreshes of the node definitions in flight
\* downloadq      the /hf_list/download requests in flight
\* batch          downloadSelected: running (on), chosen, the position of
\*                the item being downloaded, okCount and errCount; a chosen
\*                item is a position in items, or 0 with its own row state
\*                once items has been replaced
\* msg            msg.textContent, by the statement that wrote it

\* The path field and its history.
field == <<kind, value, dest_dir, focused, items, rows, active, display,
           debounceTimer, timers, inflight, rootq, legacyTimer, dismissed,
           window, lastOp, caret, userIdle>>

\* A step that belongs to the path field only.
Outside == UNCHANGED <<teardown, download, userIdle, widgets>>

\* A step of the field other than its input listener: assigning a different
\* text to destInput.value leaves the caret at its end.
FieldStep ==
    /\ Outside
    /\ caret' = IF value' # value THEN Len(value') ELSE caret

\* The state onNodeCreated leaves: a node of one of `kinds`, created with one
\* of `dirs` as its persisted dest_dir.
Created ==
    /\ items = <<>>
    /\ rows = <<>>
    /\ active = -1
    /\ display = "none"
    /\ debounceTimer = NoTimer
    /\ timers = {}
    /\ inflight = <<>>
    /\ rootq = [create |-> TRUE, focus |-> 0]
    /\ legacyTimer = (kind = "uploader" /\ dest_dir # <<>>)
    /\ listeners = IF kind = "uploader" THEN {"pointerdown"}
                   ELSE {"pointerdown", "scroll", "resize"}
    /\ dropdownParent = IF kind = "uploader" THEN "container" ELSE "body"
    /\ removals = 0
    /\ threw = FALSE
    /\ dismissed = FALSE
    /\ window = "idle"
    /\ lastOp = Op("create", 0)
    /\ userIdle = FALSE
    /\ gid = 0
    /\ downloadDisabled = FALSE
    /\ stopDisabled = TRUE
    /\ startq = 0
    /\ statusq = <<>>
    /\ stopq = <<>>
    /\ pollTimer = NoTimer
    /\ pollTimers = {}
    /\ started = 0
    /\ statusText = "Ready"
    /\ selectedFile = FALSE
    /\ xhr = 0
    /\ uploading = {}
    /\ uploadStatus = "Idle"
    /\ uploadsSent = 0

\* The node is not a list downloader: it has none of its controls.
NoList ==
    /\ pathInput = <<>>
    /\ searchInput = <<>>
    /\ categoryFilter = <<>>
    /\ options = <<>>
    /\ selCategory = <<>>
    /\ listItems = <<>>
    /\ lastRendered = <<>>
    /\ disabled = <<>>
    /\ readq = <<>>
    /\ refreshq = <<>>
    /\ pullq = 0
    /\ downloadq = 0
    /\ batch = <<>>
    /\ msg = ""

InitOf(kinds, dirs) ==
    /\ NoList
    /\ kind \in kinds
    /\ dest_dir \in dirs
    /\ value = dest_dir
    /\ caret = Len(value)
    /\ focused = FALSE
    /\ Created

Init == InitOf(Kinds, PersistedDirs)

\* ---------------------------------------------------------------- helpers
SetList(r) ==
    /\ items' = r.items
    /\ rows' = r.rows
    /\ active' = r.active
    /\ display' = r.display

SetTimer(r) ==
    /\ timers' = r.timers
    /\ debounceTimer' = r.debounceTimer

\* History of a scheduleFetch call.
NoteSchedule == window' = IF timers # {} THEN "many" ELSE "one"

\* History of a timer running fetchChildren.
NoteFire ==
    window' = CASE window = "one" -> "firedOne"
                [] window = "many" -> "firedMany"
                [] OTHER -> "firedAgain"

\* History of a cancelled window.
NoteCancel == window' = IF timers' = {} THEN "idle" ELSE window

\* The statements that dismiss the list: items = []; active = -1;
\* dropdown.style.display = "none" (the row elements stay in the hidden dropdown).
dismissList ==
    [items |-> <<>>, rows |-> <<>>, active |-> -1, display |-> "none"]

\* Mutant of moveActive: the highlight stops at the ends instead of wrapping.
moveActive_clamp(key, act, n) ==
    IF key = "ArrowDown" THEN (IF act + 1 < n THEN act + 1 ELSE act)
    ELSE (IF act > 0 THEN act - 1 ELSE act)

\* ArrowDown: (active + 1) % n; ArrowUp: (active - 1 + n) % n
moveActive(key, act, n) ==
    IF key = "ArrowDown" THEN (act + 1) % n ELSE (act - 1 + n) % n

\* Mutant of inputText: the raw text is kept.
inputText_raw(k, raw) == raw

\* The text an accepted input event leaves in the field and in dest_dir.
inputText(k, raw) == Normalize(k, raw)

\* Mutant of persistedText: the raw text is persisted.
persistedText_raw(k, raw, shown) == raw

\* What the input listener writes to dest_dir: PathUploader its local
\* `normalized`, the other two the text the field shows after normalization.
persistedText(k, raw, shown) == IF k = "uploader" THEN normalizePath(raw) ELSE shown

\* Mutant of chosenPath: the folder's name is written instead of its path.
chosenPath_name(k, it) == it.name

\* The path written by choosing item `it` (Enter or pointer).
chosenPath(k, it) == Normalize(k, it.path)

RemoveAt(q, n) == SubSeq(q, 1, n - 1) \o SubSeq(q, n + 1, Len(q))

\* ---------------------------------------------------------------- actions
\* Mutant of caretAfter: the caret is left at the end of the normalized text.
caretAfter_end(raw, normalized, prevStart) ==
    IF normalized # raw THEN Len(normalized) ELSE prevStart

\* if (normalized !== raw) { delta = normalized.length - raw.length;
\*   pos = Math.max(0, prevStart + delta); setSelectionRange(pos, pos) }
caretAfter(raw, normalized, prevStart) ==
    IF normalized # raw
    THEN (IF prevStart + Len(normalized) - Len(raw) > 0
          THEN prevStart + Len(normalized) - Len(raw) ELSE 0)
    ELSE prevStart

\* destInput "input" listener, run on the text `raw` and the caret
\* `prevStart` that the edit left.
InputHandler(raw, prevStart) ==
    /\ value' = inputText(kind, raw)
    /\ caret' = caretAfter(raw, inputText(kind, raw), prevStart)
    /\ dest_dir' = persistedText(kind, raw, inputText(kind, raw))
    /\ SetTimer(scheduleFetch(timers, debounceTimer))
    /\ NoteSchedule
    /\ dismissed' = FALSE
    /\ UNCHANGED <<kind, focused, items, rows, active, display, inflight, rootq>>
    /\ Outside

\* The user edits the text of the focused input, leaving one of `texts` with
\* the caret at its end.
InputOf(texts) ==
    \E raw \in texts :
        /\ focused
        /\ InputHandler(raw, Len(raw))
        /\ lastOp' = Op("Input", 0)
        /\ UNCHANGED legacyTimer

Input == InputOf(Texts)

\* PathUploader: if (destInput.value) setTimeout(() => dispatch input event, 50)
LegacyInput ==
    /\ legacyTimer
    /\ legacyTimer' = FALSE
    /\ InputHandler(value, caret)
    /\ lastOp' = Op("LegacyInput", 0)

\* destInput "focus" listener, up to its await (or to its end).
Focus ==
    /\ ~focused
    /\ focused' = TRUE
    /\ IF Trim(value) = <<>>
       THEN /\ rootq.focus < MaxRootQ
            /\ rootq' = [rootq EXCEPT !.focus = @ + 1]
            /\ UNCHANGED <<timers, debounceTimer, window>>
       ELSE /\ SetTimer(scheduleFetch(timers, debounceTimer))
            /\ NoteSchedule
            /\ UNCHANGED rootq
    /\ dismissed' = FALSE
    /\ lastOp' = Op("Focus", 0)
    /\ UNCHANGED <<kind, value, dest_dir, items, rows, active, display, inflight,
                   legacyTimer>>
    /\ FieldStep

\* Mutant of shouldSeed: the root is written whatever dest_dir holds.
shouldSeed_always(resp, dir) == resp.status = "ok" /\ resp.root # <<>>

\* if (data?.ok && data.root) { ... if (!this.properties.dest_dir) { seed } }
shouldSeed(resp, dir) == resp.status = "ok" /\ resp.root # <<>> /\ dir = <<>>

\* The rest of the focus listener (src = "focus") or of the creation-time
\* prefill (src = "create") once the root query is answered.
RootResponse(src, resp) ==
    /\ IF src = "create" THEN rootq.create ELSE rootq.focus > 0
    /\ rootq' = IF src = "create" THEN [rootq EXCEPT !.create = FALSE]
                ELSE [rootq EXCEPT !.focus = @ - 1]
    /\ IF shouldSeed(resp, dest_dir)
       THEN /\ value' = ReplaceBackslash(resp.root)
            /\ dest_dir' = ReplaceBackslash(resp.root)
            /\ SetTimer(seedFetch(timers, debounceTimer))
            /\ NoteSchedule
            /\ lastOp' = Op("Seed", 0)
       ELSE /\ UNCHANGED <<value, dest_dir>>
            /\ IF src = "focus"
               THEN SetTimer(scheduleFetch(timers, debounceTimer)) /\ NoteSchedule
               ELSE UNCHANGED <<timers, debounceTimer, window>>
            /\ lastOp' = Op("RootResponse", 0)
    /\ UNCHANGED <<kind, focused, items, rows, active, display, inflight,
                   legacyTimer, dismissed>>
    /\ FieldStep

\* Mutant of TimerFireOf: the timer that sends a lookup stays armed.
TimerFireOf_rearm(cap) ==
    \E t \in timers :
        /\ NoteFire
        /\ IF Trim(value) = <<>>
           THEN /\ SetList(renderDropdown(<<>>, active))
                /\ timers' = timers \ {t}
                /\ UNCHANGED inflight
           ELSE /\ Len(inflight) < cap
                /\ inflight' = Append(inflight,
                       [val |-> LookupPath(kind, value), key |-> "none", stale |-> FALSE])
                /\ timers' = timers
                /\ UNCHANGED <<items, rows, active, display>>
        /\ lastOp' = Op("TimerFire", 0)
        /\ UNCHANGED <<kind, value, dest_dir, focused, debounceTimer, rootq,
                       legacyTimer, dismissed>>
        /\ FieldStep

\* A debounce timer fires: fetchChildren up to its await (or to its early
\* return); at most `cap` requests await their response.
TimerFireOf(cap) ==
    \E t \in timers :
        /\ timers' = timers \ {t}
        /\ NoteFire
        /\ IF Trim(value) = <<>>
           THEN /\ SetList(renderDropdown(<<>>, active))
                /\ UNCHANGED inflight
           ELSE /\ Len(inflight) < cap
                /\ inflight' = Append(inflight,
                       [val |-> LookupPath(kind, value), key |-> "none", stale |-> FALSE])
                /\ UNCHANGED <<items, rows, active, display>>
        /\ lastOp' = Op("TimerFire", 0)
        /\ UNCHANGED <<kind, value, dest_dir, focused, debounceTimer, rootq,
                       legacyTimer, dismissed>>
        /\ FieldStep

TimerFire == TimerFireOf(MaxInflight)

\* PathUploader keydown listener after `await fetchChildren()`:
\* returns when there are no items, else moves the highlight and renders.
keydownAfterFetch(key, st) ==
    IF st.items = <<>> THEN st
    ELSE renderDropdown(st.items, moveActive(key, st.active, Len(st.items)))

\* What the arrival of `resp` for request `req` leaves: the rest of
\* fetchChildren and, in PathUploader, of the keydown listener awaiting it.
afterResponse(k, req, resp, foc) ==
    IF req.key = "none" THEN fetchTail(k, resp, req.val, foc)
    ELSE keydownAfterFetch(req.key, fetchTail(k, resp, req.val, foc))

\* Mutant of ListResponse: a reported root is written to the input.
ListResponse_writesRoot ==
    \E n \in 1..Len(inflight) :
        \E resp \in ListResponses(inflight[n].val) :
            /\ SetList(afterResponse(kind, inflight[n], resp, focused))
            /\ value' = IF resp.root # <<>> THEN resp.root ELSE value
            /\ inflight' = RemoveAt(inflight, n)
            /\ lastOp' = Op("ListResponse", 0)
            /\ UNCHANGED <<kind, dest_dir, focused, debounceTimer, timers,
                           rootq, legacyTimer, dismissed, window>>
            /\ FieldStep

\* Mutant of ListResponse: a failed lookup is scheduled again.
ListResponse_retry ==
    \E n \in 1..Len(inflight) :
        \E resp \in ListResponses(inflight[n].val) :
            /\ SetList(afterResponse(kind, inflight[n], resp, focused))
            /\ inflight' = RemoveAt(inflight, n)
            /\ IF resp.status # "ok"
               THEN SetTimer(scheduleFetch(timers, debounceTimer))
               ELSE UNCHANGED <<timers, debounceTimer>>
            /\ lastOp' = Op("ListResponse", 0)
            /\ UNCHANGED <<kind, value, dest_dir, focused, rootq, legacyTimer,
                           dismissed, window>>
            /\ FieldStep

\* The response of the n-th request in flight arrives.
ListResponse ==
    \E n \in 1..Len(inflight) :
        \E resp \in ListResponses(inflight[n].val) :
            LET req == inflight[n]
            IN  /\ SetList(afterResponse(kind, req, resp, focused))
                /\ inflight' = RemoveAt(
                       [i \in 1..Len(inflight) |->
                           IF i < n THEN [inflight[i] EXCEPT !.stale = TRUE]
                           ELSE inflight[i]], n)
                /\ lastOp' = Op(IF req.stale THEN "StaleListResponse"
                                ELSE "ListResponse", 0)
                /\ UNCHANGED <<kind, value, dest_dir, focused, debounceTimer, timers,
                               rootq, legacyTimer, dismissed, window>>
                /\ FieldStep

\* destInput "blur" listener.
Blur ==
    /\ focused
    /\ focused' = FALSE
    /\ SetTimer(cancelFetch(timers, debounceTimer))
    /\ SetList(dismissList)
    /\ dismissed' = TRUE
    /\ NoteCancel
    /\ lastOp' = Op("Blur", 0)
    /\ UNCHANGED <<kind, value, dest_dir, inflight, rootq, legacyTimer>>
    /\ FieldStep

\* docHandler on a pointerdown outside the container (and outside the dropdown).
OutsidePointerDown ==
    /\ "pointerdown" \in listeners
    /\ SetTimer(cancelFetch(timers, debounceTimer))
    /\ SetList(dismissList)
    /\ dismissed' = TRUE
    /\ NoteCancel
    /\ lastOp' = Op("OutsidePointerDown", 0)
    /\ UNCHANGED <<kind, value, dest_dir, focused, inflight, rootq, legacyTimer>>
    /\ FieldStep

\* row.onmouseenter of the i-th row of the shown dropdown.
Hover(i) ==
    /\ display = "block"
    /\ i \in 1..Len(rows)
    /\ SetList(renderDropdown(items, i - 1))
    /\ lastOp' = Op("Hover", 0)
    /\ UNCHANGED <<kind, value, dest_dir, focused, debounceTimer, timers, inflight,
                   rootq, legacyTimer, dismissed, window>>
    /\ FieldStep

\* Choosing item `it`: the body shared by the row listener and the Enter branch.
Choose(it) ==
    /\ value' = chosenPath(kind, it)
    /\ dest_dir' = chosenPath(kind, it)
    /\ SetList(dismissList)
    /\ SetTimer(scheduleFetch(timers, debounceTimer))
    /\ NoteSchedule
    /\ dismissed' = FALSE
    /\ UNCHANGED <<kind, focused, inflight, rootq, legacyTimer>>
    /\ FieldStep

\* row "mousedown" (PathUploader: "pointerdown") listener of the i-th row.
PointerSelect(i) ==
    /\ display = "block"
    /\ i \in 1..Len(rows)
    /\ Choose(rows[i])
    /\ lastOp' = Op("PointerSelect", i)

\* A keydown the listener returns from without an assignment.
KeyNoop ==
    UNCHANGED <<lastOp, kind, value, dest_dir, focused, items, rows, active, display,
                debounceTimer, timers, inflight, rootq, legacyTimer, dismissed,
                window, teardown, download, caret, userIdle, widgets>>

KeyMove(key) ==
    /\ SetList(renderDropdown(items, moveActive(key, active, Len(items))))
    /\ lastOp' = Op(key, 0)
    /\ UNCHANGED <<kind, value, dest_dir, focused, debounceTimer, timers, inflight,
                   rootq, legacyTimer, dismissed, window>>
    /\ FieldStep

KeyEscape ==
    /\ SetList(dismissList)
    /\ dismissed' = TRUE
    /\ lastOp' = Op("Escape", 0)
    /\ UNCHANGED <<kind, value, dest_dir, focused, debounceTimer, timers, inflight,
                   rootq, legacyTimer, window>>
    /\ FieldStep

\* PathUploader, arrow key with the dropdown not shown:
\* if (debounceTimer) clearTimeout(debounceTimer); await fetchChildren();
KeyFetchNow(key) ==
    /\ timers' = IF debounceTimer # NoTimer THEN ClearTimeout(timers, debounceTimer)
                 ELSE timers
    /\ IF Trim(value) = <<>>
       THEN /\ SetList(renderDropdown(<<>>, active))
            /\ UNCHANGED <<inflight, dismissed>>
       ELSE /\ Len(inflight) < MaxInflight
            /\ inflight' = Append(inflight,
                   [val |-> LookupPath(kind, value), key |-> key, stale |-> FALSE])
            /\ dismissed' = FALSE
            /\ UNCHANGED <<items, rows, active, display>>
    /\ lastOp' = Op(key, 0)
    /\ NoteCancel
    /\ UNCHANGED <<kind, value, dest_dir, focused, debounceTimer, rootq, legacyTimer>>
    /\ FieldStep

Keys == {"ArrowDown", "ArrowUp", "Enter", "Escape"}
Arrows == {"ArrowDown", "ArrowUp"}

\* destInput "keydown" listener of Aria2Downloader and hf_hub_downloader.
KeydownInline(key) ==
    IF display # "block" \/ items = <<>> THEN KeyNoop
    ELSE IF key \in Arrows THEN KeyMove(key)
    ELSE IF key = "Enter" /\ active >= 0
         THEN Choose(items[active + 1]) /\ lastOp' = Op("Enter", active + 1)
    ELSE IF key = "Escape" THEN KeyEscape
    ELSE KeyNoop

\* destInput "keydown" listener of PathUploader.
KeydownUploader(key) ==
    IF key \in Arrows /\ display # "block" THEN KeyFetchNow(key)
    ELSE IF items = <<>> THEN KeyNoop
    ELSE IF key \in Arrows THEN KeyMove(key)
    ELSE IF key = "Enter"
         THEN /\ Choose(items[(IF active >= 0 THEN active ELSE 0) + 1])
              /\ lastOp' = Op("Enter", (IF active >= 0 THEN active ELSE 0) + 1)
    ELSE KeyEscape

\* The user presses a key in the focused input.
Keydown(key) ==
    /\ focused
    /\ IF kind = "uploader" THEN KeydownUploader(key) ELSE KeydownInline(key)

\* Mutant of removeDropdown: removeChild is called without the parentNode
\* test and outside the try block.
removeDropdown_unguarded(parent) ==
    [dropdownParent |-> "none", threw |-> parent = "none"]

\* try { if (dropdown && dropdown.parentNode)
\*         dropdown.parentNode.removeChild(dropdown); } catch (e) { }
removeDropdown(parent) ==
    [dropdownParent |-> "none", threw |-> FALSE]

\* onRemoved: if (this._pollTimer) clearTimeout(this._pollTimer)
clearPollTimer(ts, h) == IF h # NoTimer THEN ClearTimeout(ts, h) ELSE ts

\* The node's onRemoved.  Aria2Downloader and hf_hub_downloader install a
\* handler that clears the kept poll timer and detaches the dropdown and the
\* three listeners; PathUploader installs none.  No statement of it touches
\* debounceTimer or this.gid.
OnRemoved ==
    /\ removals < MaxRemovals
    /\ removals' = removals + 1
    /\ IF kind = "uploader"
       THEN UNCHANGED <<listeners, dropdownParent, threw>>
       ELSE /\ dropdownParent' = removeDropdown(dropdownParent).dropdownParent
            /\ threw' = (threw \/ removeDropdown(dropdownParent).threw)
            /\ listeners' = listeners \ {"scroll", "resize", "pointerdown"}
    /\ lastOp' = Op("onRemoved", 0)
    /\ pollTimers' = clearPollTimer(pollTimers, pollTimer)
    /\ UNCHANGED <<kind, value, dest_dir, focused, items, rows, active, display,
                   debounceTimer, timers, inflight, rootq, legacyTimer, dismissed,
                   window, caret, userIdle>>
    /\ UNCHANGED <<gid, downloadDisabled, stopDisabled, startq, statusq, stopq,
                   pollTimer, started, statusText>>
    /\ UNCHANGED widgets

Next ==
    \/ Input
    \/ LegacyInput
    \/ Focus
    \/ \E src \in {"create", "focus"} : \E resp \in RootResponses : RootResponse(src, resp)
    \/ TimerFire
    \/ ListResponse
    \/ Blur
    \/ OutsidePointerDown
    \/ \E i \in 1..MaxFolders : Hover(i)
    \/ \E i \in 1..MaxFolders : PointerSelect(i)
    \/ \E key \in Keys : Keydown(key)

Spec == Init /\ [][Next]_vars

\* Overlapping lookups: an Aria2Downloader field whose listing service holds
\* up to MaxRace requests at once, the user typing a name or clearing the text.
InitRace == InitOf({"aria2"}, {<<>>})

NextRace ==
    \/ InputOf({<<>>, <<"a">>})
    \/ Focus
    \/ \E src \in {"create", "focus"} : \E resp \in RootResponses : RootResponse(src, resp)
    \/ TimerFireOf(MaxRace)
    \/ ListResponse
    \/ Blur
    \/ OutsidePointerDown
    \/ \E i \in 1..MaxFolders : Hover(i)
    \/ \E i \in 1..MaxFolders : PointerSelect(i)
    \/ \E key \in Keys : Keydown(key)

SpecRace == InitRace /\ [][NextRace]_vars

\* The life of a node up to and after its removal.  The user's events reach
\* the input and the rows only before the removal; timers, responses and the
\* listeners still registered run after it as well.
NextTeardown ==
    \/ removals = 0 /\ InputOf({<<>>, <<"a">>})
    \/ LegacyInput
    \/ removals = 0 /\ Focus
    \/ \E src \in {"create", "focus"} : \E resp \in RootResponses : RootResponse(src, resp)
    \/ TimerFire
    \/ ListResponse
    \/ removals = 0 /\ Blur
    \/ OutsidePointerDown
    \/ removals = 0 /\ \E i \in 1..MaxFolders : Hover(i)
    \/ removals = 0 /\ \E i \in 1..MaxFolders : PointerSelect(i)
    \/ removals = 0 /\ \E key \in Keys : Keydown(key)
    \/ OnRemoved

SpecTeardown == Init /\ [][NextTeardown]_vars

\* The input listener on every short text: the field has the focus, an edit
\* has left any text over Alphabet with the caret anywhere in it, and the
\* "input" event that the edit dispatches runs the listener.
InitNormalize ==
    /\ kind \in Kinds
    /\ dest_dir = <<>>
    /\ value \in AllTexts
    /\ caret \in 0..Len(value)
    /\ focused = TRUE
    /\ Created
    /\ NoList

InputListener ==
    /\ focused
    /\ InputHandler(value, caret)
    /\ lastOp' = Op("Input", 0)
    /\ UNCHANGED legacyTimer

NextNormalize == InputListener

SpecNormalize == InitNormalize /\ [][NextNormalize]_vars

\* ------------------------------------------------------- download controls
\* A step of the download controls: the path field and the listeners stay.
DownloadStep == UNCHANGED <<field, teardown, widgets>>

\* setDownloading(on): downloadBtn.disabled = on; stopBtn.disabled = !on
setDownloading(on) == [downloadDisabled |-> on, stopDisabled |-> ~on]

SetButtons(r) ==
    /\ downloadDisabled' = r.downloadDisabled
    /\ stopDisabled' = r.stopDisabled

\* The click listener's validation: Aria2Downloader wants a URL,
\* hf_hub_downloader a repo id, a file name and a destination folder.
\* `filled` says whether the fields other than the path field hold text.
validStart(k, filled, dest) ==
    IF k = "hf_hub" THEN filled /\ Trim(dest) # <<>> ELSE filled

\* The statuses the widgets write to statusEl: "Invalid" stands for
\* "Missing URL" / "Please fill all fields", "Starting" for "Negotiating..." /
\* "Starting...", "StartError" for the messages of a refused or thrown start,
\* "Started" for "Active" / "Download started...", "Status" for the status a
\* poll reports, "PollError" for the error a poll reports, "Stopped" for
\* "Stopped." and "StopError" for "Error stopping: ...".
StatusTexts == {"Ready", "Invalid", "Starting", "StartError", "Started", "Status",
                "PollError", "Stopped", "StopError"}

\* Mutant of clickOutcome: the fields are not validated.
clickOutcome_noValidation(g, valid) ==
    IF g # 0 THEN "ignored" ELSE "send"

\* if (this.gid) return; if (<a required field is empty>) { ...; return; }
clickOutcome(g, valid) ==
    IF g # 0 THEN "ignored" ELSE IF ~valid THEN "invalid" ELSE "send"

\* downloadBtn "click" listener, up to its await (or to its early return).
\* A disabled button dispatches no click.
DownloadClick(filled) ==
    /\ ~downloadDisabled
    /\ LET way == clickOutcome(gid, validStart(kind, filled, value))
       IN  IF way = "ignored"
           THEN UNCHANGED <<downloadDisabled, stopDisabled, startq, statusText>>
           ELSE IF way = "invalid"
           THEN /\ statusText' = "Invalid"
                /\ UNCHANGED <<downloadDisabled, stopDisabled, startq>>
           ELSE /\ started + startq < MaxDownloads
                /\ statusText' = "Starting"
                /\ SetButtons(setDownloading(TRUE))
                /\ startq' = startq + 1
    /\ UNCHANGED <<gid, statusq, stopq, pollTimer, pollTimers, started>>
    /\ DownloadStep

\* The outcomes of POST start: accepted with a gid, refused, or thrown.
StartOutcomes == {"ok", "error", "throw"}

\* The rest of the click listener once the start request is answered: an
\* accepted start keeps the gid and calls poll(), which sends the first
\* status request; a refused or thrown one calls setDownloading(false).
StartResponse(out) ==
    /\ startq > 0
    /\ startq' = startq - 1
    /\ IF out = "ok"
       THEN /\ gid' = started + 1
            /\ started' = started + 1
            /\ statusq' = Append(statusq, started + 1)
            /\ statusText' = "Started"
            /\ UNCHANGED <<downloadDisabled, stopDisabled>>
       ELSE /\ SetButtons(setDownloading(FALSE))
            /\ statusText' = "StartError"
            /\ UNCHANGED <<gid, started, statusq>>
    /\ UNCHANGED <<stopq, pollTimer, pollTimers>>
    /\ DownloadStep

\* A poll timer fires: poll() up to its await, or to its return when no gid
\* is kept.  The request asks for the gid kept now.
PollTimerFire ==
    \E t \in pollTimers :
        /\ pollTimers' = pollTimers \ {t}
        /\ statusq' = IF gid # 0 THEN Append(statusq, gid) ELSE statusq
        /\ UNCHANGED <<gid, downloadDisabled, stopDisabled, startq, stopq,
                       pollTimer, started, statusText>>
        /\ DownloadStep

\* The outcomes of GET status: thrown (or unreadable), a running transfer,
\* or a terminal one (aria2: an error field or status complete, error or
\* removed; hf hub: ok false or state done, error or stopped).
StatusOutcomes == {"throw", "running", "terminal"}

\* Mutant of pollAfter: a terminal answer arms the next poll as well.
pollAfter_alwaysArm(out, g) ==
    [gid |-> g, rearm |-> TRUE, idle |-> FALSE]

\* What poll() does with the answer: a terminal one clears the gid and calls
\* setDownloading(false); any other arms the next poll.
pollAfter(out, g) ==
    IF out = "terminal" THEN [gid |-> 0, rearm |-> FALSE, idle |-> TRUE]
    ELSE [gid |-> g, rearm |-> TRUE, idle |-> FALSE]

\* The texts poll() may write for an answer: none when the request throws,
\* the reported status, or the reported error (aria2: s.error; hf hub:
\* ok false), which is a terminal outcome.
pollTexts(out, shown) ==
    IF out = "throw" THEN {shown}
    ELSE IF out = "running" THEN {"Status"}
    ELSE {"Status", "PollError"}

\* The rest of poll() once the n-th status request in flight is answered.
StatusResponse(n, out) ==
    /\ n \in 1..Len(statusq)
    /\ statusq' = RemoveAt(statusq, n)
    /\ statusText' \in pollTexts(out, statusText)
    /\ LET r == pollAfter(out, gid)
       IN  /\ gid' = r.gid
           /\ IF r.idle THEN SetButtons(setDownloading(FALSE))
              ELSE UNCHANGED <<downloadDisabled, stopDisabled>>
           /\ IF r.rearm
              THEN /\ pollTimer' = FreshTimer(pollTimers)
                   /\ pollTimers' = pollTimers \cup {FreshTimer(pollTimers)}
              ELSE UNCHANGED <<pollTimer, pollTimers>>
    /\ UNCHANGED <<startq, stopq, started>>
    /\ DownloadStep

\* stopBtn "click" listener, up to its await (or to its early return).
StopClick ==
    /\ ~stopDisabled
    /\ IF gid = 0
       THEN /\ SetButtons(setDownloading(FALSE))
            /\ statusText' = "Stopped"
            /\ UNCHANGED stopq
       ELSE /\ Len(stopq) < MaxStops
            /\ stopq' = Append(stopq, gid)
            /\ UNCHANGED <<downloadDisabled, stopDisabled, statusText>>
    /\ UNCHANGED <<gid, startq, statusq, pollTimer, pollTimers, started>>
    /\ DownloadStep

\* The rest of the stop listener once the n-th stop request is answered
\* ("Stopped.") or has thrown ("Error stopping: ..."):
\* finally { this.gid = null; setDownloading(false) }
StopResponse(n) ==
    /\ n \in 1..Len(stopq)
    /\ stopq' = RemoveAt(stopq, n)
    /\ statusText' \in {"Stopped", "StopError"}
    /\ gid' = 0
    /\ SetButtons(setDownloading(FALSE))
    /\ UNCHANGED <<startq, statusq, pollTimer, pollTimers, started>>
    /\ DownloadStep

\* A downloader widget: the user clicks Download and Stop until the node is
\* removed; answers arrive and poll timers fire after the removal as well.
InitDownload == InitOf({"aria2", "hf_hub"}, PersistedDirs)

NextDownload ==
    \/ removals = 0 /\ \E filled \in BOOLEAN : DownloadClick(filled)
    \/ \E out \in StartOutcomes : StartResponse(out)
    \/ PollTimerFire
    \/ \E n \in 1..MaxDownloads : \E out \in StatusOutcomes : StatusResponse(n, out)
    \/ removals = 0 /\ StopClick
    \/ \E n \in 1..MaxStops : StopResponse(n)
    \/ OnRemoved

SpecDownload == InitDownload /\ [][NextDownload]_vars

\* The same widget while its node stays: armed poll timers fire, requests
\* are answered, and a status request is answered with a terminal outcome
\* again and again while polling goes on.
NextPolling ==
    \/ \E filled \in BOOLEAN : DownloadClick(filled)
    \/ \E out \in StartOutcomes : StartResponse(out)
    \/ PollTimerFire
    \/ \E n \in 1..MaxDownloads : \E out \in StatusOutcomes : StatusResponse(n, out)
    \/ StopClick
    \/ \E n \in 1..MaxStops : StopResponse(n)

SpecPolling ==
    /\ InitDownload
    /\ [][NextPolling]_vars
    /\ WF_vars(\E out \in StartOutcomes : StartResponse(out))
    /\ WF_vars(PollTimerFire)
    /\ WF_vars(\E n \in 1..MaxDownloads : \E out \in StatusOutcomes : StatusResponse(n, out))
    /\ WF_vars(\E n \in 1..MaxStops : StopResponse(n))
    /\ SF_vars(\E n \in 1..MaxDownloads : StatusResponse(n, "terminal"))

\* --------------------------------------------------------- upload controls
\* A step of the upload controls.
UploadStep == UNCHANGED <<field, teardown, download, hflist>>

\* "Choose File": picker.onchange with a file chosen.
ChooseFile ==
    /\ selectedFile' = TRUE
    /\ uploadStatus' = "Ready"
    /\ UNCHANGED <<xhr, uploading, uploadsSent>>
    /\ UploadStep

\* Mutant of uploadOutcome: an upload in flight does not hold back the next.
uploadOutcome_noBusy(file, dest, h) ==
    IF ~file THEN "nofile" ELSE IF dest = <<>> THEN "nodest" ELSE "send"

\* if (!this._selectedFile) { ...; return; }  dest = normalizePath(dest_dir).trim();
\* if (!dest) { ...; return; }  if (this._xhr) return;
uploadOutcome(file, dest, h) ==
    IF ~file THEN "nofile"
    ELSE IF dest = <<>> THEN "nodest"
    ELSE IF h # 0 THEN "busy"
    ELSE "send"

\* "Upload" button callback.
UploadClick ==
    /\ LET way == uploadOutcome(selectedFile, Trim(normalizePath(dest_dir)), xhr)
       IN  CASE way = "nofile" ->
                   /\ uploadStatus' = "SelectFile"
                   /\ UNCHANGED <<xhr, uploading, uploadsSent>>
             [] way = "nodest" ->
                   /\ uploadStatus' = "EnterDest"
                   /\ UNCHANGED <<xhr, uploading, uploadsSent>>
             [] way = "busy" ->
                   UNCHANGED <<xhr, uploading, uploadsSent, uploadStatus>>
             [] OTHER ->
                   /\ uploadsSent < MaxUploads
                   /\ xhr' = uploadsSent + 1
                   /\ uploading' = uploading \cup {uploadsSent + 1}
                   /\ uploadsSent' = uploadsSent + 1
                   /\ uploadStatus' = "Uploading"
    /\ UNCHANGED selectedFile
    /\ UploadStep

\* The ends of an upload request: answered 2xx with ok, answered otherwise,
\* or failed on the network (readystatechange, then onerror).
UploadOutcomes == {"ok", "error", "network"}

\* xhr.onreadystatechange at readyState 4 and xhr.onerror: this._xhr = null
handleAfter(h) == 0

\* The request `r` ends.
UploadEnd(r, out) ==
    /\ r \in uploading
    /\ uploading' = uploading \ {r}
    /\ xhr' = handleAfter(xhr)
    /\ uploadStatus' = CASE out = "ok" -> "Complete"
                          [] out = "error" -> "Error"
                          [] OTHER -> "NetworkError"
    /\ UNCHANGED <<selectedFile, uploadsSent>>
    /\ UploadStep

\* "Cancel" button callback: abort() ends the request, running
\* onreadystatechange before it returns, and the callback clears the handle.
CancelClick ==
    /\ IF xhr # 0
       THEN /\ uploading' = uploading \ {xhr}
            /\ xhr' = 0
            /\ uploadStatus' = "Canceled"
       ELSE UNCHANGED <<xhr, uploading, uploadStatus>>
    /\ UNCHANGED <<selectedFile, uploadsSent>>
    /\ UploadStep

\* A PathUploader widget: the user types a destination, chooses a file,
\* uploads and cancels.  The lookups the field schedules play no part in the
\* upload and are left pending.
InitUpload == InitOf({"uploader"}, PersistedDirs)

NextUpload ==
    \/ InputOf({<<>>, <<"a">>, <<" ">>})
    \/ LegacyInput
    \/ Focus
    \/ Blur
    \/ \E resp \in RootResponses : RootResponse("create", resp)
    \/ ChooseFile
    \/ UploadClick
    \/ \E r \in 1..MaxUploads : \E out \in UploadOutcomes : UploadEnd(r, out)
    \/ CancelClick

SpecUpload == InitUpload /\ [][NextUpload]_vars

\* The user stops acting on the field: from here on only timers and
\* responses run.
UserStops ==
    /\ ~userIdle
    /\ userIdle' = TRUE
    /\ UNCHANGED <<kind, value, dest_dir, focused, items, rows, active, display,
                   debounceTimer, timers, inflight, rootq, legacyTimer, dismissed,
                   window, lastOp, caret, teardown, download, widgets>>

\* A field whose user types, moves the focus and presses Enter or Escape, and
\* at some point stops; an armed timer fires and a request in flight is
\* answered (setTimeout callbacks run, and the listing service answers).
NextTyping ==
    \/ ~userIdle /\ InputOf({<<>>, <<"a">>})
    \/ ~userIdle /\ Focus
    \/ ~userIdle /\ Blur
    \/ ~userIdle /\ \E key \in Keys \ Arrows : Keydown(key)
    \/ UserStops
    \/ LegacyInput
    \/ \E src \in {"create", "focus"} : \E resp \in RootResponses : RootResponse(src, resp)
    \/ TimerFire
    \/ ListResponse

SpecTyping ==
    /\ Init
    /\ [][NextTyping]_vars
    /\ WF_vars(LegacyInput)
    /\ WF_vars(\E src \in {"create", "focus"} : \E resp \in RootResponses : RootResponse(src, resp))
    /\ WF_vars(TimerFire)
    /\ WF_vars(ListResponse)

\* ------------------------------------------------------- hf_list_downloader
\* A step of the list downloader.
ListStep == UNCHANGED <<field, teardown, download, upload>>

\* const ALL = "All"; const FALLBACK_CATEGORY = "Misc";
ALL == <<"A", "l", "l">>
FALLBACK_CATEGORY == <<"M", "i", "s", "c">>
\* "download_list.txt", the path refreshList falls back to.
DefaultList == <<"d", "l">>

\* The letters that have a lower-case form, and those forms.
UpperCase == <<"A", "B", "C", "M", "X">>
LowerCase == <<"a", "b", "c", "m", "x">>
toLowerChar(c) ==
    IF \E i \in 1..Len(UpperCase) : UpperCase[i] = c
    THEN LowerCase[CHOOSE i \in 1..Len(UpperCase) : UpperCase[i] = c]
    ELSE c
\* String.prototype.toLowerCase
toLowerCase(s) == [i \in 1..Len(s) |-> toLowerChar(s[i])]

\* String.prototype.includes
includes(hay, q) ==
    \E i \in 0..(Len(hay) - Len(q)) : SubSeq(hay, i + 1, i + Len(q)) = q

\* The order of the characters under localeCompare.
Collation == <<" ", "a", "A", "b", "B", "c", "C", "d", "i", "l", "m", "M",
               "p", "q", "s", "x", "X">>
rank(c) == CHOOSE i \in 1..Len(Collation) : Collation[i] = c
RECURSIVE localeBefore(_, _)
\* a.localeCompare(b) < 0
localeBefore(a, b) ==
    IF a = <<>> THEN b # <<>>
    ELSE IF b = <<>> THEN FALSE
    ELSE IF toLowerChar(a[1]) # toLowerChar(b[1])
         THEN rank(toLowerChar(a[1])) < rank(toLowerChar(b[1]))
    ELSE IF Tail(a) = Tail(b) THEN rank(a[1]) < rank(b[1])
    ELSE localeBefore(Tail(a), Tail(b))
RECURSIVE sorted(_)
\* Array.from(unique).sort((a, b) => a.localeCompare(b))
sorted(S) ==
    IF S = {} THEN <<>>
    ELSE LET m == CHOOSE x \in S : \A y \in S \ {x} : localeBefore(x, y)
         IN  <<m>> \o sorted(S \ {m})

Range(s) == {s[i] : i \in 1..Len(s)}

\* getDisplayCategory: the trimmed category, or the fallback.
getDisplayCategory(it) ==
    LET c == Trim(it.category) IN IF c = <<>> THEN FALLBACK_CATEGORY ELSE c

\* The items of a read answer as readList keeps them: the category trimmed
\* or replaced by the fallback, no row yet.
normalizeItems(raw) ==
    [i \in 1..Len(raw) |->
        [repo_id |-> raw[i].repo_id, file_in_repo |-> raw[i].file_in_repo,
         local_subdir |-> raw[i].local_subdir,
         category |-> getDisplayCategory(raw[i]),
         el |-> FALSE, cls |-> {}, checked |-> FALSE]]

\* buildCategoryOptions: the options, ALL first.
categoryOptions(its) ==
    <<ALL>> \o sorted({getDisplayCategory(its[i]) : i \in 1..Len(its)})
\* buildCategoryOptions: the selection restored from properties.category_filter.
restoredCategory(its, desired) ==
    IF desired \in Range(categoryOptions(its)) THEN desired ELSE ALL

\* Mutant of hasQuery: a search text of any length filters.
hasQuery_always(q) == TRUE

\* const hasQuery = q.length >= 3;
hasQuery(q) == Len(q) >= 3

\* const hay = `${repo_id} ${file_in_repo} ${local_subdir} ${category}`.toLowerCase()
hay(it) ==
    toLowerCase(it.repo_id \o <<" ">> \o it.file_in_repo \o <<" ">>
                \o it.local_subdir \o <<" ">> \o getDisplayCategory(it))

\* The filter of render(), for the selected category and the search text.
passes(it, selectedCat, search) ==
    LET q == toLowerCase(Trim(search))
        inCat == IF selectedCat = ALL THEN TRUE
                 ELSE getDisplayCategory(it) = selectedCat
    IN  /\ inCat
        /\ (~hasQuery(q) \/ includes(hay(it), q))

\* render(): toRender, as the positions of the kept items in items.
toRender(its, selectedCat, search) ==
    LET keep(i) == passes(its[i], selectedCat, search)
    IN  SelectSeq([i \in 1..Len(its) |-> i], keep)

\* render(): every item of toRender gets a new row with a new checkbox; the
\* other items keep the row and the checkbox they had.
renderedItems(its, selectedCat, search) ==
    [i \in 1..Len(its) |->
        IF i \in Range(toRender(its, selectedCat, search))
        THEN [its[i] EXCEPT !.el = TRUE, !.cls = {}, !.checked = FALSE]
        ELSE its[i]]

\* selCategory.value || ALL
selectedCategory == IF selCategory = <<>> THEN ALL ELSE selCategory

\* render()
Render(its) ==
    /\ listItems' = renderedItems(its, selectedCategory', searchInput')
    /\ lastRendered' = toRender(its, selectedCategory', searchInput')

\* onNodeCreated with the persisted properties: nothing loaded, one option,
\* the persisted category selected if it is that option.
ListCreated(list_path, category_filter, search_query) ==
    /\ pathInput = list_path
    /\ searchInput = search_query
    /\ categoryFilter = category_filter
    /\ options = <<ALL>>
    /\ selCategory = IF category_filter = ALL THEN ALL ELSE <<>>
    /\ listItems = <<>>
    /\ lastRendered = <<>>
    /\ disabled = [btnDownload |-> FALSE, btnRead |-> FALSE,
                   btnRefresh |-> FALSE, btnPull |-> FALSE]
    /\ readq = <<>>
    /\ refreshq = <<>>
    /\ pullq = 0
    /\ downloadq = 0
    /\ batch = [on |-> FALSE, chosen |-> <<>>, pos |-> 0,
                okCount |-> 0, errCount |-> 0]
    /\ msg = ""

\* The user edits the path input (no listener).
PathInput(p) ==
    /\ pathInput' = p
    /\ UNCHANGED <<searchInput, categoryFilter, options, selCategory, listItems,
                   lastRendered, disabled, readq, refreshq, pullq, downloadq,
                   batch, msg>>
    /\ ListStep

\* searchInput "input" listener.
SearchInput(q) ==
    /\ searchInput' = q
    /\ UNCHANGED <<selCategory, categoryFilter>>
    /\ Render(listItems)
    /\ UNCHANGED <<pathInput, options, disabled, readq, refreshq, pullq,
                   downloadq, batch, msg>>
    /\ ListStep

\* selCategory "change" listener, the user having picked the option `c`.
CategoryChange(c) ==
    /\ c \in Range(options)
    /\ selCategory' = c
    /\ categoryFilter' = c
    /\ UNCHANGED searchInput
    /\ Render(listItems)
    /\ UNCHANGED <<pathInput, options, disabled, readq, refreshq, pullq,
                   downloadq, batch, msg>>
    /\ ListStep

\* The user ticks or unticks the checkbox of the k-th row.
ToggleRow(k) ==
    /\ k \in 1..Len(lastRendered)
    /\ listItems' = [listItems EXCEPT ![lastRendered[k]].checked = ~@]
    /\ UNCHANGED <<pathInput, searchInput, categoryFilter, options, selCategory,
                   lastRendered, disabled, readq, refreshq, pullq, downloadq,
                   batch, msg>>
    /\ ListStep

\* selectAll / clearSel: lastRendered.forEach(it => it.cb.checked = ...)
setChecked(its, shown, to) ==
    [i \in 1..Len(its) |->
        IF i \in Range(shown) THEN [its[i] EXCEPT !.checked = to] ELSE its[i]]

\* "Select All" (to = TRUE) and "Clear" (to = FALSE).
SelectClick(to) ==
    /\ listItems' = setChecked(listItems, lastRendered, to)
    /\ UNCHANGED <<pathInput, searchInput, categoryFilter, options, selCategory,
                   lastRendered, disabled, readq, refreshq, pullq, downloadq,
                   batch, msg>>
    /\ ListStep

\* readList() up to its await: the request for the trimmed path.  `after` is
\* the path of the refresh that awaits this read, <<>> for a Read click.
readList(after) ==
    /\ Len(readq) < MaxListReq
    /\ readq' = Append(readq, [path |-> Trim(pathInput), after |-> after])
    /\ msg' = "Reading"

\* btnRead "click" listener.
ReadClick ==
    /\ ~disabled.btnRead
    /\ readList(<<>>)
    /\ UNCHANGED <<pathInput, searchInput, categoryFilter, options, selCategory,
                   listItems, lastRendered, disabled, refreshq, pullq,
                   downloadq, batch>>
    /\ ListStep

\* The items of the batch once items is replaced: the chosen objects are no
\* longer those of the list and keep the row they had.
orphaned(ch, its) ==
    [k \in 1..Len(ch) |->
        IF ch[k].item = 0 THEN ch[k]
        ELSE [item |-> 0, el |-> its[ch[k].item].el, cls |-> its[ch[k].item].cls]]

\* The answers to a read: a failure (non-ok status, ok false, or an
\* exception) or a list of items.
ReadAnswers(lists) == {[ok |-> FALSE, items |-> <<>>]}
                          \cup {[ok |-> TRUE, items |-> l] : l \in lists}

\* The rest of readList() once the n-th read in flight is answered, and, if
\* refreshList awaited it, the finally block of refreshList.
ReadResponse(n, ans) ==
    /\ n \in 1..Len(readq)
    /\ readq' = RemoveAt(readq, n)
    /\ LET its == IF ans.ok THEN normalizeItems(ans.items) ELSE <<>>
       IN  /\ options' = categoryOptions(its)
           /\ selCategory' = restoredCategory(its, categoryFilter)
           /\ UNCHANGED <<searchInput, categoryFilter>>
           /\ Render(its)
    /\ msg' = IF ans.ok THEN "Loaded" ELSE "ReadError"
    /\ batch' = [batch EXCEPT !.chosen = orphaned(@, listItems)]
    /\ disabled' = IF readq[n].after # <<>>
                   THEN [disabled EXCEPT !.btnRefresh = FALSE] ELSE disabled
    /\ UNCHANGED <<pathInput, refreshq, pullq, downloadq>>
    /\ ListStep

\* refreshList() up to its await.
RefreshClick ==
    /\ ~disabled.btnRefresh
    /\ Len(refreshq) < MaxListReq
    /\ refreshq' = Append(refreshq,
                          IF Trim(pathInput) = <<>> THEN DefaultList
                          ELSE Trim(pathInput))
    /\ msg' = "Refreshing"
    /\ disabled' = [disabled EXCEPT !.btnRefresh = TRUE]
    /\ UNCHANGED <<pathInput, searchInput, categoryFilter, options, selCategory,
                   listItems, lastRendered, readq, pullq, downloadq, batch>>
    /\ ListStep

\* The rest of refreshList() once the n-th refresh is answered: a read on
\* success, the error message and the finally block otherwise.
RefreshResponse(n, ok) ==
    /\ n \in 1..Len(refreshq)
    /\ refreshq' = RemoveAt(refreshq, n)
    /\ IF ok
       THEN /\ readList(refreshq[n])
            /\ UNCHANGED disabled
       ELSE /\ msg' = "RefreshError"
            /\ disabled' = [disabled EXCEPT !.btnRefresh = FALSE]
            /\ UNCHANGED readq
    /\ UNCHANGED <<pathInput, searchInput, categoryFilter, options, selCategory,
                   listItems, lastRendered, pullq, downloadq, batch>>
    /\ ListStep

\* refreshComfy() up to the await of api.refreshNodeDefs().
PullClick ==
    /\ ~disabled.btnPull
    /\ pullq < MaxListReq
    /\ pullq' = pullq + 1
    /\ disabled' = [disabled EXCEPT !.btnPull = TRUE]
    /\ msg' = "RefreshingDefs"
    /\ UNCHANGED <<pathInput, searchInput, categoryFilter, options, selCategory,
                   listItems, lastRendered, readq, refreshq, downloadq, batch>>
    /\ ListStep

\* The rest of refreshComfy() once the definitions are refreshed or the
\* refresh has thrown.
PullDone(ok) ==
    /\ pullq > 0
    /\ pullq' = pullq - 1
    /\ msg' = IF ok THEN "DefsRefreshed" ELSE "DefsError"
    /\ disabled' = [disabled EXCEPT !.btnPull = FALSE]
    /\ UNCHANGED <<pathInput, searchInput, categoryFilter, options, selCategory,
                   listItems, lastRendered, readq, refreshq, downloadq, batch>>
    /\ ListStep

\* const chosen = lastRendered.filter(it => it.cb && it.cb.checked)
chosenOf(its, shown) ==
    LET ticked(i) == its[i].checked
        pick == SelectSeq(shown, ticked)
    IN  [k \in 1..Len(pick) |-> [item |-> pick[k], el |-> FALSE, cls |-> {}]]

\* The row classes of the k-th chosen item, and whether it has a row.
clsOf(its, ch, k) == IF ch[k].item # 0 THEN its[ch[k].item].cls ELSE ch[k].cls
elOf(its, ch, k) == IF ch[k].item # 0 THEN its[ch[k].item].el ELSE ch[k].el

\* it.el.classList.remove(...); it.el.classList.add(...) on the k-th chosen
\* item: the items and the chosen items afterwards.
classed(its, ch, k, remove, add) ==
    IF ch[k].item # 0
    THEN <<[its EXCEPT ![ch[k].item].cls = (@ \ remove) \cup add], ch>>
    ELSE <<its, [ch EXCEPT ![k].cls = (@ \ remove) \cup add]>>

\* btnDownload.disabled = false; btnRead.disabled = false; ... at the end of
\* downloadSelected.
allEnabled(d) == [btnDownload |-> FALSE, btnRead |-> FALSE,
                  btnRefresh |-> FALSE, btnPull |-> FALSE]

\* The for loop of downloadSelected from the k-th chosen item on, up to the
\* next await: an item without a row counts as an error at once, the first
\* item with a row is marked downloading and requested; past the last item
\* the buttons are enabled and the result is shown.
RECURSIVE loopFrom(_, _, _, _)
loopFrom(its, b, k, d) ==
    IF k > Len(b.chosen)
    THEN [items |-> its, batch |-> [b EXCEPT !.on = FALSE, !.pos = 0],
          disabled |-> allEnabled(d), sent |-> 0,
          msg |-> IF b.errCount > 0 THEN "FinishedErrors" ELSE "Finished"]
    ELSE IF ~elOf(its, b.chosen, k)
    THEN loopFrom(its, [b EXCEPT !.errCount = @ + 1], k + 1, d)
    ELSE LET c == classed(its, b.chosen, k, {"done", "error"}, {"downloading"})
         IN  [items |-> c[1], batch |-> [b EXCEPT !.chosen = c[2], !.pos = k],
              disabled |-> d, sent |-> 1, msg |-> "Downloading"]

\* btnDownload "click" listener: downloadSelected() up to its first await.
DownloadSelected ==
    /\ ~disabled.btnDownload
    /\ LET chosen == chosenOf(listItems, lastRendered)
       IN  IF chosen = <<>>
           THEN /\ msg' = "NothingSelected"
                /\ UNCHANGED <<listItems, disabled, downloadq, batch>>
           ELSE LET d == [btnDownload |-> TRUE, btnRead |-> TRUE,
                          btnRefresh |-> TRUE, btnPull |-> TRUE]
                    b == [on |-> TRUE, chosen |-> chosen, pos |-> 0,
                          okCount |-> 0, errCount |-> 0]
                    r == loopFrom(listItems, b, 1, d)
                IN  /\ listItems' = r.items
                    /\ batch' = r.batch
                    /\ disabled' = r.disabled
                    /\ downloadq' = downloadq + r.sent
                    /\ msg' = r.msg
    /\ UNCHANGED <<pathInput, searchInput, categoryFilter, options, selCategory,
                   lastRendered, readq, refreshq, pullq>>
    /\ ListStep

\* The rest of downloadOne() once the request of the current item is
\* answered (ok) or has failed, and downloadSelected() up to its next await.
ItemResponse(ok) ==
    /\ downloadq > 0
    /\ batch.on
    /\ LET c == classed(listItems, batch.chosen, batch.pos, {"downloading"},
                        IF ok THEN {"done"} ELSE {"error"})
           b == [batch EXCEPT !.chosen = c[2],
                              !.okCount = IF ok THEN @ + 1 ELSE @,
                              !.errCount = IF ok THEN @ ELSE @ + 1]
           r == loopFrom(c[1], b, batch.pos + 1, disabled)
       IN  /\ listItems' = r.items
           /\ batch' = r.batch
           /\ disabled' = r.disabled
           /\ downloadq' = downloadq - 1 + r.sent
           /\ msg' = r.msg
    /\ UNCHANGED <<pathInput, searchInput, categoryFilter, options, selCategory,
                   lastRendered, readq, refreshq, pullq>>
    /\ ListStep

\* The items a list file may hold: a tagged one, one whose category is
\* blank, and one whose repository name is longer.
Item1 == [repo_id |-> <<"a", "b">>, file_in_repo |-> <<"c", "d">>,
          local_subdir |-> <<>>, category |-> <<"X">>]
Item2 == [repo_id |-> <<"A", "B">>, file_in_repo |-> <<"c">>,
          local_subdir |-> <<"d">>, category |-> <<" ">>]
Item3 == [repo_id |-> <<"a", "b", "c">>, file_in_repo |-> <<"a">>,
          local_subdir |-> <<"b">>, category |-> <<" ", "X">>]
ItemPool == {Item1, Item2, Item3}
ListsOf(pool) == UNION {[1..n -> pool] : n \in 0..MaxItems}

\* The search texts a user may leave in the box: empty, two letters with
\* blanks around them, three letters of one field in the other case, part of
\* the fallback category, and letters of two neighbouring fields.
Queries == {<<>>, <<" ", "c", "d", " ">>, <<"A", "B", "C">>, <<"m", "i", "s">>,
            <<"b", " ", "c">>}
\* The paths a user may leave in the path input.
Paths == {<<>>, <<"p">>, <<"q">>}

\* The list downloader with its filters: lists are read, the user searches,
\* picks categories and ticks rows.
InitFilter ==
    /\ kind = "hf_list"
    /\ dest_dir = <<>>
    /\ value = <<>>
    /\ caret = 0
    /\ focused = FALSE
    /\ Created
    /\ \E c \in {ALL, <<"X">>} : \E q \in {<<>>, <<"m", "i", "s">>} :
           ListCreated(DefaultList, c, q)

NextFilter ==
    \/ \E q \in Queries : SearchInput(q)
    \/ \E c \in Range(options) : CategoryChange(c)
    \/ \E k \in 1..MaxItems : ToggleRow(k)
    \/ \E to \in BOOLEAN : SelectClick(to)
    \/ ReadClick
    \/ \E ans \in ReadAnswers(ListsOf(ItemPool)) : ReadResponse(1, ans)

SpecFilter == InitFilter /\ [][NextFilter]_vars

\* The list downloader with its requests: a small list, one search text, and
\* every button.
InitList ==
    /\ kind = "hf_list"
    /\ dest_dir = <<>>
    /\ value = <<>>
    /\ caret = 0
    /\ focused = FALSE
    /\ Created
    /\ ListCreated(DefaultList, ALL, <<>>)

NextList ==
    \/ \E q \in {<<>>, <<"m", "i", "s">>} : SearchInput(q)
    \/ \E k \in 1..MaxItems : ToggleRow(k)
    \/ \E to \in BOOLEAN : SelectClick(to)
    \/ ReadClick
    \/ \E n \in 1..MaxListReq :
           \E ans \in ReadAnswers({<<Item1, Item2>>}) : ReadResponse(n, ans)
    \/ RefreshClick
    \/ \E n \in 1..MaxListReq : \E ok \in BOOLEAN : RefreshResponse(n, ok)
    \/ PullClick
    \/ \E ok \in BOOLEAN : PullDone(ok)
    \/ DownloadSelected
    \/ \E ok \in BOOLEAN : ItemResponse(ok)

SpecList == InitList /\ [][NextList]_vars

\* The list downloader with its list file: the user edits the path, reads
\* and fetches.
InitLoad ==
    /\ kind = "hf_list"
    /\ dest_dir = <<>>
    /\ value = <<>>
    /\ caret = 0
    /\ focused = FALSE
    /\ Created
    /\ \E p \in {DefaultList, <<"p">>} : ListCreated(p, ALL, <<>>)

NextLoad ==
    \/ \E p \in Paths : PathInput(p)
    \/ ReadClick
    \/ \E n \in 1..MaxListReq :
           \E ans \in ReadAnswers({<<Item1, Item2>>}) : ReadResponse(n, ans)
    \/ RefreshClick
    \/ \E n \in 1..MaxListReq : \E ok \in BOOLEAN : RefreshResponse(n, ok)

SpecLoad == InitLoad /\ [][NextLoad]_vars

\* ----------------------------------------------------------------- claims

HasBackslash(s) == \E i \in 1..Len(s) : s[i] = "\\"
HasDoubleSlash(s) == \E i \in 1..(Len(s) - 1) : s[i] = "/" /\ s[i + 1] = "/"

\* C1: in every reachable state of every path field, active is -1 exactly
\* when the suggestion list is empty, and otherwise a valid index into it.
C1_ActiveIndexValid ==
    /\ (active = -1) <=> (items = <<>>)
    /\ items # <<>> => active \in 0..(Len(items) - 1)

\* A two-item list with the second item highlighted.
C1_Witness == Len(items) = 2 /\ active = 1 /\ display = "block"

\* C2: once the field was dismissed (Escape, blur, outside pointer-down), a
\* response that arrives later is discarded: the list stays empty, active
\* stays -1 and the dropdown stays hidden until a keystroke or focus event
\* starts a new lookup.
C2_LateResponseDiscarded ==
    dismissed => (items = <<>> /\ active = -1 /\ display = "none")

\* C3: armed debounce timers plus requests awaiting their response are at
\* most one per field.
C3_AtMostOneLookup == Cardinality(timers) + Len(inflight) <= 1

\* C4: the response of a request that was issued before an already answered
\* one never replaces the suggestions.
C4_StaleResponseDiscarded ==
    [][lastOp' = Op("StaleListResponse", 0) =>
          (items' = items /\ active' = active /\ display' = display)]_vars

\* C5: at most one debounce timer is armed, it is the kept handle; the timers
\* of one debounce window run fetchChildren at most once, leaving none armed;
\* and the lookup a firing timer performs is for the text the field holds
\* then (none when that text is blank).
C5_TimerState ==
    /\ Cardinality(timers) <= 1
    /\ timers \subseteq {debounceTimer}
    /\ window # "firedAgain"
    /\ window \in {"firedOne", "firedMany"} => timers = {}

C5_FireStep ==
    (window \in {"one", "many"} /\ window' \in {"firedOne", "firedMany"}) =>
        /\ timers' = {}
        /\ IF Trim(value) = <<>> THEN inflight' = inflight
           ELSE /\ Len(inflight') = Len(inflight) + 1
                /\ inflight'[Len(inflight')].val = Normalize(kind, Trim(value))
                /\ SubSeq(inflight', 1, Len(inflight)) = inflight

C5_Debounce == []C5_TimerState /\ [][C5_FireStep]_vars

\* scheduleFetch ran more than once in a window, then its one timer fired and
\* sent the one request.
C5_Witness == window = "firedMany" /\ Len(inflight) = 1 /\ timers = {}

C8_BlurHides ==
    /\ lastOp = Op("Blur", 0) =>
           (display = "none" /\ items = <<>> /\ active = -1 /\ timers = {})
    /\ ~focused => display = "none"

\* C9: the Escape key leaves no debounce timer armed, an empty list,
\* active -1 and a hidden dropdown.
C9_EscapeCancels ==
    [][lastOp' = Op("Escape", 0) =>
          (timers' = {} /\ items' = <<>> /\ active' = -1 /\ display' = "none")]_vars

\* C10: confirming suggestion i (Enter with it highlighted, or pointer on row
\* i) writes its path to the input and to dest_dir, empties the list, resets
\* active, hides the dropdown and leaves exactly one debounce timer armed.
C10_ConfirmStep ==
    lastOp'.op \in {"Enter", "PointerSelect"} =>
        /\ lastOp'.i \in 1..Len(items)
        /\ lastOp'.op = "Enter" => lastOp'.i = active + 1
        /\ value' = items[lastOp'.i].path
        /\ dest_dir' = items[lastOp'.i].path
        /\ items' = <<>>
        /\ active' = -1
        /\ display' = "none"
        /\ timers' = {debounceTimer'}
        /\ debounceTimer' # NoTimer

C10_Confirm == [][C10_ConfirmStep]_vars

\* Enter chose the second of two suggestions.
C10_Witness ==
    /\ lastOp = Op("Enter", 2)
    /\ value = dest_dir
    /\ value \in {<<"a", "/", "b">>, <<"/", "a", "/", "b">>}
    /\ items = <<>>
    /\ Cardinality(timers) = 1

\* A step that handles the answer of a root query: of a focus listener, or
\* of the creation-time prefill.
FocusRootStep == rootq'.focus < rootq.focus
CreateRootStep == rootq.create /\ ~rootq'.create
Armed == timers' = {debounceTimer'} /\ debounceTimer' # NoTimer

\* C11 as stated: the answer of a root query never overwrites a dest_dir
\* that is set; when it seeds, text and dest_dir become the root and a lookup
\* is scheduled; when it does not, a lookup for the current text is scheduled.
C11_RootSeeding ==
    [][(FocusRootStep \/ CreateRootStep) =>
          /\ dest_dir # <<>> => (value' = value /\ dest_dir' = dest_dir)
          /\ dest_dir' # dest_dir =>
                 (value' = dest_dir' /\ dest_dir' \in ServerRoots /\ Armed)
          /\ dest_dir' = dest_dir => (value' = value /\ Armed)]_vars

\* C11 amended: the answer of a root query never overwrites a dest_dir that
\* is set; when it seeds, text and dest_dir become the root with its
\* backslashes converted and a lookup is scheduled; when it does not, the
\* focus listener schedules a lookup for the current text and the
\* creation-time prefill schedules nothing.
C11_SeedStep ==
    (FocusRootStep \/ CreateRootStep) =>
        /\ dest_dir # <<>> => (value' = value /\ dest_dir' = dest_dir)
        /\ dest_dir' # dest_dir =>
               /\ value' = dest_dir'
               /\ dest_dir' \in {ReplaceBackslash(r) : r \in ServerRoots}
               /\ Armed
        /\ (dest_dir' = dest_dir /\ FocusRootStep) => (value' = value /\ Armed)
        /\ (dest_dir' = dest_dir /\ CreateRootStep) =>
               (value' = value /\ timers' = timers /\ debounceTimer' = debounceTimer)

C11_SeedOnlyWhenUnset == [][C11_SeedStep]_vars

\* A focused field seeded with the UNC root, its lookup scheduled.
C11_Witness ==
    /\ focused
    /\ value = <<"/", "/", "a">>
    /\ dest_dir = value
    /\ Cardinality(timers) = 1
    /\ rootq = [create |-> FALSE, focus |-> 0]
    /\ items = <<>>

\* The responses C12 calls failed: a thrown fetch or unreadable body, a body
\* whose ok is absent or false, or a status outside 2xx.
FailedResponse(resp) == resp.status # "ok" \/ ~resp.http2xx

\* C12: whatever failed response arrives for a request in flight, handling it
\* leaves an empty list, active -1 and a hidden dropdown.
C12_FailedLookupEmpty ==
    \A n \in 1..Len(inflight) :
        \A resp \in ListResponses(inflight[n].val) :
            FailedResponse(resp) =>
                LET r == afterResponse(kind, inflight[n], resp, focused)
                IN  r.items = <<>> /\ r.active = -1 /\ r.display = "none"

\* C13: once the node was removed no debounce timer is armed and no
\* list-children request is issued.
C13_TeardownCancelsTimers ==
    [][removals' > 0 => (timers' = {} /\ Len(inflight') <= Len(inflight))]_vars

\* C14: once the node was removed, its pointerdown listener on document and
\* its scroll and resize listeners on window are gone and the dropdown is no
\* child of the document's body.
C14_TeardownDetaches ==
    removals > 0 => (listeners = {} /\ dropdownParent # "body")

\* C15: an invocation of onRemoved raises no error, and a second one leaves
\* listeners, dropdown and timers as the first left them.
C15_SecondRemovalStep ==
    removals' > removals =>
        /\ ~threw'
        /\ removals >= 1 =>
               /\ listeners' = listeners
               /\ dropdownParent' = dropdownParent
               /\ timers' = timers
               /\ debounceTimer' = debounceTimer

C15_Idempotent == [][C15_SecondRemovalStep]_vars

\* onRemoved of an hf_hub_downloader node ran twice.
C15_Witness ==
    /\ removals = 2
    /\ kind = "hf_hub"
    /\ ~threw
    /\ listeners = {}
    /\ dropdownParent = "none"

\* The fullPath C16 states: base "/" name with backslashes converted and
\* doubled slashes collapsed.
C16_FullPath(base, name) ==
    CollapseSlashes(ReplaceBackslash(base \o <<"/">> \o name))

\* base and name joined by one slash unless base ends with one, backslashes
\* converted, slashes already doubled in base kept.
C16_Joined(base, name) ==
    LET b == ReplaceBackslash(base)
    IN  IF b[Len(b)] = "/" THEN b \o ReplaceBackslash(name)
        ELSE b \o <<"/">> \o ReplaceBackslash(name)

C16_Base(resp, val) == IF resp.root # <<>> THEN resp.root ELSE val

AnsweredKey(key) ==
    \E n \in 1..Len(inflight) :
        /\ inflight[n].key = key
        /\ Len(inflight') = Len(inflight) - 1
        /\ \A i \in 1..Len(inflight') :
               /\ inflight'[i].val = inflight[IF i < n THEN i ELSE i + 1].val
               /\ inflight'[i].key = inflight[IF i < n THEN i ELSE i + 1].key

C17_Moved(key, act, n) ==
    IF key = "ArrowDown" THEN (act + 1) % n ELSE (act - 1 + n) % n

C17_ArrowStep ==
    \A key \in Arrows :
        /\ (lastOp' = Op(key, 0) /\ display = "block" /\ items # <<>>) =>
               /\ items' = items
               /\ display' = "block"
               /\ active' = C17_Moved(key, active, Len(items))
        /\ (lastOp' = Op(key, 0) /\ kind # "uploader") =>
               (display = "block" /\ items # <<>>)
        /\ (lastOp' = Op(key, 0) /\ kind = "uploader" /\ display # "block") =>
               /\ timers' = timers \ {debounceTimer}
               /\ IF \A i \in 1..Len(value) : value[i] = " "
                  THEN items' = <<>> /\ active' = -1 /\ inflight' = inflight
                  ELSE /\ items' = items
                       /\ active' = active
                       /\ Len(inflight') = Len(inflight) + 1
                       /\ inflight'[Len(inflight')].key = key
        /\ (AnsweredKey(key) /\ items' # <<>>) =>
               /\ active' = C17_Moved(key, 0, Len(items'))
               /\ display' = "block"

C18_Blank(s) == \A i \in 1..Len(s) : s[i] = " "

\* C18: a debounce timer that fires while the text is empty or blank sends
\* no request and leaves an empty list, active -1 and a hidden dropdown.
C18_BlankFireStep ==
    (window \in {"one", "many"} /\ window' \in {"firedOne", "firedMany"}
        /\ C18_Blank(value)) =>
            /\ inflight' = inflight
            /\ items' = <<>>
            /\ active' = -1
            /\ display' = "none"

C18_BlankNoLookup == [][C18_BlankFireStep]_vars

\* The timer fired on a text of one space.
C18_Witness ==
    /\ window \in {"firedOne", "firedMany"}
    /\ value = <<" ">>
    /\ inflight = <<>>
    /\ items = <<>>
    /\ timers = {}

\* C19: dest_dir equals the text of the input, from creation on and after
\* every handler.
C19_PersistedEqualsShown == dest_dir = value

\* The typed text \/ , accepted by a PathUploader field as // .
C19_Witness ==
    /\ kind = "uploader"
    /\ value = <<"/", "/">>
    /\ dest_dir = <<"/", "/">>
    /\ Cardinality(timers) = 1

\* A step of a lookup: a request is sent or answered, or a debounce timer
\* runs fetchChildren.
LookupStep ==
    \/ inflight' # inflight
    \/ window \in {"one", "many"} /\ window' \in {"firedOne", "firedMany"}

\* C20: no step of a lookup changes the input text or dest_dir; the steps
\* that change them are input events, selections and root seedings.
C20_FrameStep ==
    /\ LookupStep => (value' = value /\ dest_dir' = dest_dir)
    /\ (value' # value \/ dest_dir' # dest_dir) =>
           /\ ~LookupStep
           /\ removals' = removals
           /\ lastOp'.op \notin {"Blur", "OutsidePointerDown", "Escape",
                                 "ArrowDown", "ArrowUp", "StaleListResponse"}
           /\ Armed

C20_LookupKeepsValue == [][C20_FrameStep]_vars

\* A lookup for the typed text a was answered with two folders.
C20_Witness ==
    /\ value = <<"a">>
    /\ dest_dir = <<"a">>
    /\ Len(items) = 2
    /\ items[1].path = <<"a", "/", "c">>
    /\ inflight = <<>>

\* C21: the normalization an input event applies is idempotent and leaves no
\* backslash; the inline normalization of Aria2Downloader and
\* hf_hub_downloader leaves no doubled slash either, while PathUploader's
\* normalizePath only converts backslashes and keeps doubled slashes.
C21_NormalizedStep ==
    /\ Normalize(kind, value') = value'
    /\ ~HasBackslash(value')
    /\ kind # "uploader" => ~HasDoubleSlash(value')

C21_NoDoubledSlashStep ==
    /\ Normalize(kind, value') = value'
    /\ ~HasBackslash(value')
    /\ ~HasDoubleSlash(value')

C22_CaretStep ==
    IF value' # value
    THEN caret' = (IF caret + Len(value') - Len(value) > 0
                   THEN caret + Len(value') - Len(value) ELSE 0)
    ELSE caret' = caret

C22_CaretDelta == [][C22_CaretStep]_vars

\* The listener has run and the caret is inside the normalized text, where
\* an edit that left a doubled slash before it puts it.
C22_Witness ==
    /\ timers # {}
    /\ kind = "hf_hub"
    /\ value = <<"/", "a", "a">>
    /\ caret = 2

\* C23: lookups are never retried.  A step that sends a list-children request
\* sends one, and is the firing of the debounce timer or, in PathUploader, an
\* arrow key pressed while the dropdown is hidden; the arrival of a
\* response, failed or not, sends no request and arms no timer; and a timer
\* is armed only by an input event, a focus, a chosen suggestion or the
\* answer to a root query, none of which sends a request itself.
C23_SchedulingEvent ==
    \/ Input
    \/ LegacyInput
    \/ Focus
    \/ \E src \in {"create", "focus"} : \E resp \in RootResponses : RootResponse(src, resp)
    \/ \E i \in 1..MaxFolders : PointerSelect(i)
    \/ Keydown("Enter")

C23_RequestStep ==
    Len(inflight') > Len(inflight) =>
        /\ Len(inflight') = Len(inflight) + 1
        /\ \/ TimerFire
           \/ kind = "uploader" /\ \E key \in Arrows : Keydown(key)

C23_ResponseStep ==
    Len(inflight') < Len(inflight) =>
        /\ Len(inflight') = Len(inflight) - 1
        /\ timers' = timers
        /\ debounceTimer' = debounceTimer
        /\ rootq' = rootq

C23_ArmStep ==
    (timers' # {} /\ (timers = {} \/ debounceTimer' # debounceTimer)) =>
        /\ inflight' = inflight
        /\ C23_SchedulingEvent

C23_NoRetry == [][C23_RequestStep /\ C23_ResponseStep /\ C23_ArmStep]_vars

\* A lookup for "a" was answered with nothing to list; no timer is armed and
\* no request is in flight although the input still has the focus.
C23_Witness ==
    /\ focused
    /\ value = <<"a">>
    /\ window = "firedOne"
    /\ inflight = <<>>
    /\ timers = {}
    /\ items = <<>>
    /\ display = "none"
    /\ ~dismissed

\* C24: once the user has stopped with the focus on the input and a lookup
\* scheduled by typing, the field eventually rests, with no timer armed and
\* no request in flight, either Listed (dropdown shown, one row per
\* suggestion, first one highlighted) or Dismissed (dropdown hidden, no
\* suggestion, nothing highlighted); and the answer to a lookup of a focused
\* field leaves it Listed with the suggestions of that answer when the
\* answer is ok with at least one folder, Dismissed otherwise.
C24_Listed == display = "block" /\ items # <<>> /\ rows = items /\ active = 0

C24_Dismissed == display = "none" /\ items = <<>> /\ rows = <<>> /\ active = -1

C24_Typing ==
    /\ userIdle
    /\ focused
    /\ timers # {}
    /\ \A n \in 1..Len(inflight) : inflight[n].key = "none"

C24_Settled ==
    /\ timers = {}
    /\ inflight = <<>>
    /\ C24_Listed \/ C24_Dismissed

C24_AnswerLeads ==
    focused =>
        \A n \in 1..Len(inflight) :
            inflight[n].key = "none" =>
                \A resp \in ListResponses(inflight[n].val) :
                    LET st == afterResponse(kind, inflight[n], resp, focused)
                    IN  IF resp.status = "ok" /\ resp.folders # <<>>
                        THEN /\ st.display = "block"
                             /\ st.active = 0
                             /\ st.rows = st.items
                             /\ Len(st.items) = Len(resp.folders)
                             /\ \A i \in 1..Len(st.items) :
                                    st.items[i].name = resp.folders[i]
                        ELSE /\ st.display = "none"
                             /\ st.items = <<>>
                             /\ st.rows = <<>>
                             /\ st.active = -1

C25_OnePollChain == Len(statusq) + Cardinality(pollTimers) <= 1

\* C26: while a start request is in flight or a gid is kept, Download is
\* disabled and Stop enabled; while Download is enabled, no start request is
\* in flight and no gid is kept.
C26_ButtonsConsistent ==
    /\ (startq > 0 \/ gid # 0) => (downloadDisabled /\ ~stopDisabled)
    /\ ~downloadDisabled => (startq = 0 /\ gid = 0)

\* C27: at most one start request is in flight, and a start request is sent
\* only when none is in flight and no gid is kept.
C27_SendStep == startq' > startq => (startq = 0 /\ gid = 0)

C27_OneStart == [](startq <= 1) /\ [][C27_SendStep]_vars

\* C28: the completion of a stop request sent for another gid than the one
\* kept now leaves the kept gid, its polling and the buttons as they are.
C28_StaleStopStep ==
    \A n \in 1..Len(stopq) :
        (StopResponse(n) /\ gid # 0 /\ stopq[n] # gid) =>
            /\ gid' = gid
            /\ downloadDisabled' /\ ~stopDisabled'
            /\ statusq' = statusq /\ pollTimers' = pollTimers

C28_StopClearsOwn == [][C28_StaleStopStep]_vars

\* C29: once the node is removed no poll timer is armed and no status
\* request is sent.
C29_RemovedStep == removals > 0 => Len(statusq') <= Len(statusq)

C29_NoPollAfterRemoval ==
    [](removals > 0 => pollTimers = {}) /\ [][C29_RemovedStep]_vars

\* C30: a terminal answer to a status request clears the gid, arms no poll
\* timer, enables Download and disables Stop; a failed status request keeps
\* the gid and arms the next poll; and, a terminal answer arriving again and
\* again while polling goes on, a kept gid is eventually cleared with the
\* buttons back to idle.
C30_Idle == gid = 0 /\ ~downloadDisabled /\ stopDisabled

C30_TerminalStep ==
    \A n \in 1..Len(statusq) :
        StatusResponse(n, "terminal") =>
            /\ C30_Idle'
            /\ pollTimers' = pollTimers
            /\ pollTimer' = pollTimer

C30_FailedStep ==
    \A n \in 1..Len(statusq) :
        StatusResponse(n, "throw") =>
            /\ gid' = gid
            /\ pollTimer' \notin pollTimers
            /\ pollTimers' = pollTimers \cup {pollTimer'}

C30_TerminalToIdle ==
    /\ [][C30_TerminalStep /\ C30_FailedStep]_vars
    /\ (gid # 0 ~> C30_Idle)

\* One download was started and polled, a poll timer was armed at least
\* once, and the widget is idle again with nothing in flight.
C30_Witness ==
    /\ started = 1
    /\ pollTimer # NoTimer
    /\ C30_Idle
    /\ startq = 0 /\ statusq = <<>> /\ stopq = <<>> /\ pollTimers = {}

\* C31: once a stop has completed, with the status line reading "Stopped."
\* and no gid kept, the answer to a status request still in flight leaves
\* the status line as it is.
C31_StatusAnswerStep ==
    \A n \in 1..Len(statusq) :
        \A out \in StatusOutcomes :
            (StatusResponse(n, out) /\ statusText = "Stopped" /\ gid = 0) =>
                statusText' = "Stopped"

C31_StoppedKept == [][C31_StatusAnswerStep]_vars

\* C32 as stated: a Download click with a required field missing sends no
\* start request, shows the validation message and leaves gid, the polling
\* and both buttons as they are.
C32_InvalidClick(filled) ==
    DownloadClick(filled) /\ ~validStart(kind, filled, value)

C32_NothingSent ==
    /\ startq' = startq
    /\ UNCHANGED <<gid, statusq, stopq, pollTimer, pollTimers, started,
                   downloadDisabled, stopDisabled>>

C32_MessageStep ==
    \A filled \in BOOLEAN :
        C32_InvalidClick(filled) => (C32_NothingSent /\ statusText' = "Invalid")

\* Wherever the button can be clicked, a click with a field missing takes
\* the branch that shows the message.
C32_MessageShown == ~downloadDisabled => clickOutcome(gid, FALSE) = "invalid"

C32_AmendedStep ==
    \A filled \in BOOLEAN :
        C32_InvalidClick(filled) =>
            /\ C32_NothingSent
            /\ statusText' = IF gid = 0 THEN "Invalid" ELSE statusText

C32_AmendedShown ==
    ~downloadDisabled =>
        clickOutcome(gid, FALSE) = IF gid = 0 THEN "invalid" ELSE "ignored"

C33_FailedStartStep ==
    \A out \in {"error", "throw"} :
        StartResponse(out) =>
            /\ gid' = 0
            /\ statusq' = statusq /\ pollTimers' = pollTimers
            /\ ~downloadDisabled' /\ stopDisabled'
            /\ statusText' = "StartError"

C33_FailedStartIdle == [][C33_FailedStartStep]_vars

\* C34: PathUploader has at most one upload request in flight, and this._xhr
\* refers to it exactly while it is in flight; a step that sends an upload
\* starts from a selected file, a non-empty trimmed destination and no upload
\* in flight; a step in which an upload completes, fails or is cancelled
\* leaves this._xhr null, from where Upload is not held back.
C34_OneInFlight ==
    /\ Cardinality(uploading) <= 1
    /\ uploading = IF xhr = 0 THEN {} ELSE {xhr}
    /\ (uploadOutcome(selectedFile, Trim(normalizePath(dest_dir)), xhr) = "send")
           <=> (selectedFile /\ Trim(normalizePath(dest_dir)) # <<>> /\ uploading = {})
C34_UploadStep ==
    /\ (uploading' \ uploading # {}) =>
           /\ selectedFile
           /\ Trim(normalizePath(dest_dir)) # <<>>
           /\ uploading = {}
           /\ xhr = 0
    /\ (uploading \ uploading' # {}) =>
           /\ xhr' = 0
           /\ uploading' = {}
           /\ uploadOutcome(selectedFile', Trim(normalizePath(dest_dir')), xhr') # "busy"
C34_SingleUpload == []C34_OneInFlight /\ [][C34_UploadStep]_vars
C34_Witness ==
    /\ uploadsSent = 2
    /\ xhr = 2
    /\ uploading = {2}
    /\ uploadStatus = "Uploading"

\* C35: from the start of a batch until its last item has finished, the
\* Download, Read, Fetch and Refresh buttons are all disabled and at most one
\* item download request is in flight, also when a Fetch or a Refresh was in
\* flight when the batch started.
C35_BatchLocks ==
    batch.on =>
        /\ disabled.btnDownload
        /\ disabled.btnRead
        /\ disabled.btnRefresh
        /\ disabled.btnPull
        /\ downloadq <= 1

\* C36: a batch downloads the checked rendered items one after another in
\* list order and continues after a failure; when it completes, okCount +
\* errCount is the number of chosen items, every chosen item is marked
\* exactly one of done and error and none downloading, and the four buttons
\* are enabled; with nothing checked no request is sent.
C36_OneByOne ==
    batch.on =>
        /\ batch.pos \in 1..Len(batch.chosen)
        /\ batch.okCount + batch.errCount = batch.pos - 1
        /\ downloadq = 1
C36_Marked(its, ch, k) ==
    /\ Cardinality(clsOf(its, ch, k) \cap {"done", "error"}) = 1
    /\ "downloading" \notin clsOf(its, ch, k)
C36_BatchStep ==
    /\ (~batch.on /\ batch'.on) =>
           /\ batch'.chosen = chosenOf(listItems, lastRendered)
           /\ batch'.pos = 1
    /\ (batch.on /\ batch'.on /\ batch'.pos # batch.pos) =>
           batch'.pos = batch.pos + 1
    /\ (batch.on /\ ~batch'.on) =>
           /\ batch.pos = Len(batch.chosen)
           /\ batch'.okCount + batch'.errCount = Len(batch'.chosen)
           /\ \A k \in 1..Len(batch'.chosen) :
                  C36_Marked(listItems', batch'.chosen, k)
           /\ disabled' = [btnDownload |-> FALSE, btnRead |-> FALSE,
                           btnRefresh |-> FALSE, btnPull |-> FALSE]
    /\ (downloadq' > downloadq) => chosenOf(listItems, lastRendered) # <<>>
C36_BatchAccounting == []C36_OneByOne /\ [][C36_BatchStep]_vars

\* C37 (as stated): the rendered rows are exactly the loaded items whose
\* display category is the selected one (all of them when "All" is selected)
\* and, when the trimmed lower-cased search text has at least three
\* characters, whose repo id, file, subdirectory or category contains it
\* without regard to case; Select All and Clear change only rendered rows; the
\* first category option is "All".
C37_Query == toLowerCase(Trim(searchInput))
C37_InCategory(it) ==
    selectedCategory = ALL \/ getDisplayCategory(it) = selectedCategory
C37_FieldContains(it) ==
    \E f \in {it.repo_id, it.file_in_repo, it.local_subdir, getDisplayCategory(it)} :
        includes(toLowerCase(f), C37_Query)
C37_RowsWhere(Shown(_)) ==
    LET keep(i) == Shown(listItems[i])
    IN  lastRendered = SelectSeq([i \in 1..Len(listItems) |-> i], keep)
C37_ShownByField(it) ==
    C37_InCategory(it) /\ (Len(C37_Query) >= 3 => C37_FieldContains(it))
C37_OnlyRendered ==
    (lastRendered' = lastRendered /\ readq' = readq) =>
        /\ Len(listItems') = Len(listItems)
        /\ \A i \in 1..Len(listItems) :
               i \notin Range(lastRendered) => listItems'[i] = listItems[i]
C37_AllFirst == options # <<>> /\ options[1] = ALL /\ selectedCategory \in Range(options)
C37_AsStated ==
    [](C37_RowsWhere(C37_ShownByField) /\ C37_AllFirst) /\ [][C37_OnlyRendered]_vars

\* C37 (amended): as above, but a search text of at least three characters
\* keeps the items whose lower-cased text "repo_id file_in_repo local_subdir
\* category", the four joined by single spaces, contains it.
C37_ShownByText(it) ==
    C37_InCategory(it) /\ (Len(C37_Query) >= 3 => includes(hay(it), C37_Query))
C37_Filter ==
    [](C37_RowsWhere(C37_ShownByText) /\ C37_AllFirst) /\ [][C37_OnlyRendered]_vars
C37_Witness ==
    /\ searchInput = <<"b", " ", "c">>
    /\ Len(listItems) = 2
    /\ lastRendered = <<1>>
    /\ listItems[1].checked
    /\ Len(options) = 2

\* C38: a failed Read leaves the item list empty with only the "All"
\* category and an error message; a successful Fetch is at once followed by a
\* Read of the path that was fetched; a failed Fetch leaves the loaded items
\* unchanged; the Fetch button is enabled again once a Fetch has ended either
\* way.
C38_ReadFails(n) == ReadResponse(n, [ok |-> FALSE, items |-> <<>>])
C38_LoadStep ==
    /\ \A n \in 1..Len(readq) :
           C38_ReadFails(n) =>
               /\ listItems' = <<>>
               /\ options' = <<ALL>>
               /\ msg' = "ReadError"
    /\ \A n \in 1..Len(refreshq) :
           RefreshResponse(n, TRUE) =>
               /\ Len(readq') = Len(readq) + 1
               /\ readq'[Len(readq')].path = refreshq[n]
    /\ \A n \in 1..Len(refreshq) :
           RefreshResponse(n, FALSE) =>
               /\ listItems' = listItems
               /\ ~disabled'.btnRefresh
    /\ \A n \in 1..Len(readq) :
           \A ans \in ReadAnswers({<<Item1, Item2>>}) :
               (ReadResponse(n, ans) /\ readq[n].after # <<>>) =>
                   ~disabled'.btnRefresh
C38_ListLoading == [][C38_LoadStep]_vars
====
